---- MODULE Spec2Model ----
(***************************************************************************)
(* crony: the cron-expression evaluator (package crontab, Schedule.Next)   *)
(* and the live supervisor (executeCrontab / executeEntry in crony.go).    *)
(*                                                                         *)
(* Time.  A time.Time is the record [min, sec, nsec]: whole minutes since  *)
(* 0001-01-01 00:00 UTC (the zero time.Time is minute 0), the second       *)
(* within the minute and the nanosecond within the second.  All times are  *)
(* in one location without daylight-saving shifts (UTC), as in the         *)
(* package's tests.                                                        *)
(***************************************************************************)
EXTENDS Integers, Sequences, FiniteSets, TLC

VARIABLES
    nextCall,   \* one activation of Schedule.Next: its receiver, argument, locals and position
    clock,      \* time.Now()
    sup,        \* executeCrontab: its stopTime variable and the count of snapshots accepted
    chans,      \* the stop channels made so far: chans[c] is the buffer of channel c (capacity 1)
    tasks,      \* the executeEntry goroutines spawned so far, in spawn order
    runs,       \* history: the executeCommand calls started so far
    parse,      \* one activation of ParseCrontab: its argument, loop position and results
    fieldCall,  \* one call of parseListSpec: its arguments and its result
    exec,       \* one activation of executeCommand: its position and the collaborator calls made
    watch,      \* the goroutine of watchCrontab: its position in pullCrontab and what it holds
    git         \* the repo's mutexes and counter, the goroutines that call its methods, the git commands running

vars == <<nextCall, clock, sup, chans, tasks, runs, parse, fieldCall, exec, watch, git>>

(***************************************************************************)
(* Calendar arithmetic of package time (proleptic Gregorian, UTC).         *)
(***************************************************************************)
MinutesPerDay == 1440

IsLeap(y) == (y % 4 = 0 /\ y % 100 # 0) \/ y % 400 = 0

\* days from 0001-01-01 to the first day of year y
DaysBeforeYear(y) ==
    LET p == y - 1 IN 365 * p + (p \div 4) - (p \div 100) + (p \div 400)

\* days from the first day of year y to the first day of its month mo (1..13)
DaysBeforeMonth(y, mo) ==
    LET cum == <<0, 31, 59, 90, 120, 151, 181, 212, 243, 273, 304, 334, 365>>
    IN  cum[mo] + (IF mo > 2 /\ IsLeap(y) THEN 1 ELSE 0)

\* the civil date [y, mo, d] of absolute day n (day 0 is 0001-01-01)
Civil(n) ==
    LET n400 == n \div 146097
        d1   == n % 146097
        c100 == d1 \div 36524
        n100 == IF c100 > 3 THEN 3 ELSE c100
        d2   == d1 - 36524 * n100
        n4   == d2 \div 1461
        d3   == d2 % 1461
        c1   == d3 \div 365
        n1   == IF c1 > 3 THEN 3 ELSE c1
        yday == d3 - 365 * n1
        y    == 400 * n400 + 100 * n100 + 4 * n4 + n1 + 1
        mo   == CHOOSE m \in 1..12 :
                    DaysBeforeMonth(y, m) <= yday /\ yday < DaysBeforeMonth(y, m + 1)
    IN  [y |-> y, mo |-> mo, d |-> yday - DaysBeforeMonth(y, mo) + 1]

AbsDay(t) == t.min \div MinutesPerDay

Year(t) == Civil(AbsDay(t)).y

Month(t) == Civil(AbsDay(t)).mo

Day(t) == Civil(AbsDay(t)).d

Hour(t) == (t.min % MinutesPerDay) \div 60

Minute(t) == t.min % 60

\* time.Weekday: 0 = Sunday; 0001-01-01 was a Monday
Weekday(t) == (AbsDay(t) + 1) % 7

\* time.Date(y, mo, d, h, mi, s, ns, loc): month and day overflow are normalised
Date(y, mo, d, h, mi, s, ns) ==
    LET yy  == y + ((mo - 1) \div 12)
        mm  == ((mo - 1) % 12) + 1
        day == DaysBeforeYear(yy) + DaysBeforeMonth(yy, mm) + d - 1
    IN  [min |-> day * MinutesPerDay + h * 60 + mi, sec |-> s, nsec |-> ns]

\* t.AddDate(years, months, days)
AddDate(t, years, months, days) ==
    LET c == Civil(AbsDay(t))
    IN  Date(c.y + years, c.mo + months, c.d + days, Hour(t), Minute(t), t.sec, t.nsec)

\* t.Add(n * time.Minute)
AddMinutes(t, n) == [t EXCEPT !.min = @ + n]

\* a.Before(b)
Before(a, b) ==
    \/ a.min < b.min
    \/ a.min = b.min /\ a.sec < b.sec
    \/ a.min = b.min /\ a.sec = b.sec /\ a.nsec < b.nsec

\* time.Time{}
ZeroTime == [min |-> 0, sec |-> 0, nsec |-> 0]

(***************************************************************************)
(* Fields, range specs, list specs (crontab.go).                           *)
(***************************************************************************)
minuteField == [min |-> 0, max |-> 59, name |-> "minute"]

hourField == [min |-> 0, max |-> 23, name |-> "hour"]

dayField == [min |-> 1, max |-> 31, name |-> "day"]

monthField == [min |-> 1, max |-> 12, name |-> "month"]

weekdayField == [min |-> 0, max |-> 6, name |-> "weekday"]

\* rangeSpec{start, end, step}
R(start, end, step) == [start |-> start, end |-> end, step |-> step]

rangeWildcard(r, f) == r.step = 1 /\ r.start = f.min /\ r.end = f.max

\* (i - r.start) % r.step with a zero step: Go panics (integer divide by zero)
rangePanics(r, i) == r.start <= i /\ i <= r.end /\ r.step = 0

\* rangeSpec.matches when it does not panic; Go's % truncates, so a negative
\* step divides like its absolute value (i - r.start is not negative here)
rangeMatches(r, i) ==
    /\ r.start <= i
    /\ i <= r.end
    /\ r.step # 0
    /\ (i - r.start) % (IF r.step < 0 THEN 0 - r.step ELSE r.step) = 0

rangeValid(r, f) == f.min <= r.start /\ r.start <= r.end /\ r.end <= f.max

listWildcard(l, f) == Len(l) = 1 /\ rangeWildcard(l[1], f)

\* the index of the first member at which the loop of listSpec.matches stops
\* (it returns true or panics there); 0 when it runs to the end
listStop(l, i) ==
    LET hits == {k \in 1..Len(l) : rangePanics(l[k], i) \/ rangeMatches(l[k], i)}
    IN  IF hits = {} THEN 0 ELSE CHOOSE k \in hits : \A j \in hits : k <= j

listPanics(l, i) == listStop(l, i) # 0 /\ rangePanics(l[listStop(l, i)], i)

listMatches(l, i) == listStop(l, i) # 0 /\ rangeMatches(l[listStop(l, i)], i)

(***************************************************************************)
(* Schedules.  Each is the value ParseEntry returns for the crontab line   *)
(* given with it.                                                          *)
(***************************************************************************)
Schedule(minute, hour, day, month, weekday) ==
    [minute |-> minute, hour |-> hour, day |-> day, month |-> month, weekday |-> weekday]

AnyMinute == <<R(0, 59, 1)>>

AnyHour == <<R(0, 23, 1)>>

AnyDay == <<R(1, 31, 1)>>

AnyMonth == <<R(1, 12, 1)>>

AnyWeekday == <<R(0, 6, 1)>>

One(v) == <<R(v, v, 1)>>

\* "* * * * *"
EveryMinute == Schedule(AnyMinute, AnyHour, AnyDay, AnyMonth, AnyWeekday)

\* "*/5 * * * *"
EveryFive == Schedule(<<R(0, 59, 5)>>, AnyHour, AnyDay, AnyMonth, AnyWeekday)

\* "*/2 * * * *"
EveryTwo == Schedule(<<R(0, 59, 2)>>, AnyHour, AnyDay, AnyMonth, AnyWeekday)

\* "0-10/5 * * * *"
RangeStep == Schedule(<<R(0, 10, 5)>>, AnyHour, AnyDay, AnyMonth, AnyWeekday)

\* "0,5,25 * * * *"
MinuteList == Schedule(<<R(0, 0, 1), R(5, 5, 1), R(25, 25, 1)>>, AnyHour, AnyDay, AnyMonth, AnyWeekday)

\* "@hourly" = "0 * * * *"
Hourly == Schedule(One(0), AnyHour, AnyDay, AnyMonth, AnyWeekday)

\* "@daily" = "0 0 * * *"
Daily == Schedule(One(0), One(0), AnyDay, AnyMonth, AnyWeekday)

\* "@weekly" = "0 0 * * 0"
Weekly == Schedule(One(0), One(0), AnyDay, AnyMonth, One(0))

\* "@monthly" = "0 0 1 * *"
Monthly == Schedule(One(0), One(0), One(1), AnyMonth, AnyWeekday)

\* "@yearly" = "0 0 1 1 *"
Yearly == Schedule(One(0), One(0), One(1), One(1), AnyWeekday)

\* "0 0 13 * 5": day of month and weekday both restricted
Day13OrFriday == Schedule(One(0), One(0), One(13), AnyMonth, One(5))

\* "30 12 */10 * 1-5": a stepped full day range is not a wildcard
SteppedDayOrWorkday == Schedule(One(30), One(12), <<R(1, 31, 10)>>, AnyMonth, <<R(1, 5, 1)>>)

\* "0 0 31 2 *": no date satisfies it
Feb31 == Schedule(One(0), One(0), One(31), One(2), AnyWeekday)

\* "0 0 29 2 *": leap days only
LeapDay == Schedule(One(0), One(0), One(29), One(2), AnyWeekday)

\* "59 23 31 12 *"
LastMinuteOfYear == Schedule(One(59), One(23), One(31), One(12), AnyWeekday)

\* "*/-5 * * * *": strconv.Atoi accepts the sign and rangeSpec.valid ignores the step
NegativeStep == Schedule(<<R(0, 59, 0 - 5)>>, AnyHour, AnyDay, AnyMonth, AnyWeekday)

\* "*/0 * * * *": rangeSpec.valid ignores the step
ZeroStep == Schedule(<<R(0, 59, 0)>>, AnyHour, AnyDay, AnyMonth, AnyWeekday)

\* "0 0 5-5/0 * 1": a zero step in the day column
ZeroStepDay == Schedule(One(0), One(0), <<R(5, 5, 0)>>, AnyMonth, One(1))

(***************************************************************************)
(* Schedule.dayMatches and Schedule.Next (crontab.go).                     *)
(***************************************************************************)
\* mutant of dayMatches: the two columns always combined with AND
dayMatchesAlwaysAnd(s, t) ==
    listMatches(s.day, Day(t)) /\ listMatches(s.weekday, Weekday(t))

\* mutant of NoNextTime: the last candidate returned in place of the zero time
NoNextTimeCandidate(t) == t

\* mutant of StartStep: one minute added without truncating to the minute
StartStepNoTruncate(c) ==
    [c EXCEPT !.horizon = AddDate(c.t, 8, 0, 0),
              !.t = AddMinutes(c.t, 1),
              !.pc = "wrap"]

\* both matches calls are made before the results are combined
dayPanics(s, t) == listPanics(s.day, Day(t)) \/ listPanics(s.weekday, Weekday(t))

dayMatches(s, t) ==
    LET dayWildcard == listWildcard(s.day, dayField)
        weekdayWildcard == listWildcard(s.weekday, weekdayField)
        dayM == listMatches(s.day, Day(t))
        weekdayM == listMatches(s.weekday, Weekday(t))
    IN  IF dayWildcard \/ weekdayWildcard
        THEN dayM /\ weekdayM
        ELSE dayM \/ weekdayM

\* the value returned when the search gives up
NoNextTime(t) == ZeroTime

\* An activation of Next is [s, arg, pc, t, horizon, result, iters]:
\*   pc = "start"  at entry; "wrap" at the head of the labelled loop;
\*   "month", "day", "hour", "minute" at the head of the inner loops;
\*   "done" after return (result is the value returned); "panic" after a
\*   run-time panic in rangeSpec.matches.
\* iters counts the steps taken so far (one per loop test).
Activation(s, t) ==
    [s |-> s, arg |-> t, pc |-> "start", t |-> t, horizon |-> t, result |-> ZeroTime,
     iters |-> 0]

Final == {"done", "panic"}

Panicked(c) == [c EXCEPT !.pc = "panic"]

Counted(c) == [c EXCEPT !.iters = @ + 1]

\* horizon := t.AddDate(8, 0, 0); truncate to the minute; add one minute
StartStep(c) ==
    LET trunc == Date(Year(c.t), Month(c.t), Day(c.t), Hour(c.t), Minute(c.t), 0, 0)
    IN  [c EXCEPT !.horizon = AddDate(c.t, 8, 0, 0),
                  !.t = AddMinutes(trunc, 1),
                  !.pc = "wrap"]

\* for t.Before(horizon) { ... }  return time.Time{}
WrapStep(c) ==
    IF Before(c.t, c.horizon)
    THEN [c EXCEPT !.pc = "month"]
    ELSE [c EXCEPT !.pc = "done", !.result = NoNextTime(c.t)]

\* for !s.month.matches(int(t.Month())) { first of this month; AddDate(0, 1, 0) }
MonthStep(c) ==
    IF listPanics(c.s.month, Month(c.t)) THEN Panicked(c)
    ELSE IF ~listMatches(c.s.month, Month(c.t))
    THEN [c EXCEPT !.t = AddDate(Date(Year(c.t), Month(c.t), 1, 0, 0, 0, 0), 0, 1, 0)]
    ELSE [c EXCEPT !.pc = "day"]

\* for !s.dayMatches(t) { midnight; AddDate(0, 0, 1); if t.Day() == 1 { continue wrap } }
DayStep(c) ==
    IF dayPanics(c.s, c.t) THEN Panicked(c)
    ELSE IF ~dayMatches(c.s, c.t)
    THEN LET u == AddDate(Date(Year(c.t), Month(c.t), Day(c.t), 0, 0, 0, 0), 0, 0, 1)
         IN  [c EXCEPT !.t = u, !.pc = IF Day(u) = 1 THEN "wrap" ELSE "day"]
    ELSE [c EXCEPT !.pc = "hour"]

\* for !s.hour.matches(t.Hour()) { top of the hour; Add(1h); if t.Hour() == 0 { continue wrap } }
HourStep(c) ==
    IF listPanics(c.s.hour, Hour(c.t)) THEN Panicked(c)
    ELSE IF ~listMatches(c.s.hour, Hour(c.t))
    THEN LET u == AddMinutes(Date(Year(c.t), Month(c.t), Day(c.t), Hour(c.t), 0, 0, 0), 60)
         IN  [c EXCEPT !.t = u, !.pc = IF Hour(u) = 0 THEN "wrap" ELSE "hour"]
    ELSE [c EXCEPT !.pc = "minute"]

\* for !s.minute.matches(t.Minute()) { this minute; Add(1m); if t.Minute() == 0 { continue wrap } }
\* return t
MinuteStep(c) ==
    IF listPanics(c.s.minute, Minute(c.t)) THEN Panicked(c)
    ELSE IF ~listMatches(c.s.minute, Minute(c.t))
    THEN LET u == AddMinutes(Date(Year(c.t), Month(c.t), Day(c.t), Hour(c.t), Minute(c.t), 0, 0), 1)
         IN  [c EXCEPT !.t = u, !.pc = IF Minute(u) = 0 THEN "wrap" ELSE "minute"]
    ELSE [c EXCEPT !.pc = "done", !.result = c.t]

\* one step of the activation, by position
StepOf(c) ==
    Counted(CASE c.pc = "start"  -> StartStep(c)
              [] c.pc = "wrap"   -> WrapStep(c)
              [] c.pc = "month"  -> MonthStep(c)
              [] c.pc = "day"    -> DayStep(c)
              [] c.pc = "hour"   -> HourStep(c)
              [] c.pc = "minute" -> MinuteStep(c))

\* at most n steps of the activation (split in halves to keep the evaluation
\* shallow; the halves are bound as values so that each is computed once)
RECURSIVE RunSteps(_, _)
RunSteps(c, n) ==
    IF c.pc \in Final \/ n = 0 THEN c
    ELSE IF n = 1 THEN StepOf(c)
    ELSE CHOOSE r \in { RunSteps(m, n - (n \div 2)) : m \in {RunSteps(c, n \div 2)} } : TRUE

\* the activation run until it returns or panics
RECURSIVE RunToEnd(_, _)
RunToEnd(c, n) ==
    CHOOSE r \in { IF d.pc \in Final THEN d ELSE RunToEnd(d, 2 * n) :
                     d \in {RunSteps(c, n)} } : TRUE

\* s.Next(t) as a call: whether it panics, and the value it returns otherwise
NextPanics(s, t) ==
    \E a \in {Activation(s, t)} : RunToEnd(a, 64).pc = "panic"

ScheduleNext(s, t) ==
    CHOOSE r \in { RunToEnd(a, 64).result : a \in {Activation(s, t)} } : TRUE

(***************************************************************************)
(* The parser (parse.go).  A Go string is the sequence of its characters,   *)
(* each a one-character string.                                            *)
(***************************************************************************)
Digits == {"0", "1", "2", "3", "4", "5", "6", "7", "8", "9"}

DigitVal(c) ==
    CASE c = "0" -> 0 [] c = "1" -> 1 [] c = "2" -> 2 [] c = "3" -> 3 [] c = "4" -> 4
      [] c = "5" -> 5 [] c = "6" -> 6 [] c = "7" -> 7 [] c = "8" -> 8 [] c = "9" -> 9

\* unicode.IsSpace, on the characters used here
IsSpace(c) == c \in {" ", "\t"}

\* strings.Index(s, sep) + 1 for a one-character sep; 0 when sep is not in s
Index(s, sep) ==
    LET at == {k \in 1..Len(s) : s[k] = sep}
    IN  IF at = {} THEN 0 ELSE CHOOSE k \in at : \A j \in at : k <= j

\* strings.SplitN(s, sep, 2)
SplitN2(s, sep) ==
    LET k == Index(s, sep)
    IN  IF k = 0 THEN <<s>> ELSE <<SubSeq(s, 1, k - 1), SubSeq(s, k + 1, Len(s))>>

\* the position of the first sep in s at or after from; Len(s) + 1 when there is none
IndexFrom(s, sep, from) ==
    LET at == {k \in from..Len(s) : s[k] = sep}
    IN  IF at = {} THEN Len(s) + 1 ELSE CHOOSE k \in at : \A j \in at : k <= j

\* the parts of s from position from on, between the occurrences of sep
RECURSIVE SplitFrom(_, _, _)
SplitFrom(s, sep, from) ==
    CHOOSE parts \in
        { IF k > Len(s) THEN <<SubSeq(s, from, Len(s))>>
          ELSE <<SubSeq(s, from, k - 1)>> \o SplitFrom(s, sep, k + 1) :
              k \in {IndexFrom(s, sep, from)} } : TRUE

\* strings.Split(s, sep)
Split(s, sep) == SplitFrom(s, sep, 1)

\* strings.TrimLeftFunc(s, unicode.IsSpace)
TrimLeft(s) ==
    LET kept == {k \in 1..Len(s) : ~IsSpace(s[k])}
    IN  IF kept = {} THEN <<>>
        ELSE SubSeq(s, CHOOSE k \in kept : \A j \in kept : k <= j, Len(s))

\* the value of a string of decimal digits
RECURSIVE DecVal(_)
DecVal(s) ==
    IF s = <<>> THEN 0 ELSE DecVal(SubSeq(s, 1, Len(s) - 1)) * 10 + DigitVal(s[Len(s)])

\* strconv.Atoi: an optional sign, then one or more decimal digits
Atoi(s) ==
    LET signed == s # <<>> /\ s[1] \in {"+", "-"}
        body == IF signed THEN Tail(s) ELSE s
        ok == body # <<>> /\ \A k \in 1..Len(body) : body[k] \in Digits
    IN  [ok |-> ok,
         val |-> IF ~ok THEN 0 ELSE IF s[1] = "-" THEN 0 - DecVal(body) ELSE DecVal(body)]

\* a nil map[string]int: no key is present
NoSubstitutions == [k \in {} |-> 0]

monthSubstitutions ==
    [k \in { <<"j", "a", "n">>, <<"f", "e", "b">>, <<"m", "a", "r">>, <<"a", "p", "r">>,
             <<"m", "a", "y">>, <<"j", "u", "n">>, <<"j", "u", "l">>, <<"a", "u", "g">>,
             <<"s", "e", "p">>, <<"o", "c", "t">>, <<"n", "o", "v">>, <<"d", "e", "c">> } |->
        CASE k = <<"j", "a", "n">> -> 1 [] k = <<"f", "e", "b">> -> 2
          [] k = <<"m", "a", "r">> -> 3 [] k = <<"a", "p", "r">> -> 4
          [] k = <<"m", "a", "y">> -> 5 [] k = <<"j", "u", "n">> -> 6
          [] k = <<"j", "u", "l">> -> 7 [] k = <<"a", "u", "g">> -> 8
          [] k = <<"s", "e", "p">> -> 9 [] k = <<"o", "c", "t">> -> 10
          [] k = <<"n", "o", "v">> -> 11 [] k = <<"d", "e", "c">> -> 12]

weekdaySubstitutions ==
    [k \in { <<"s", "u", "n">>, <<"m", "o", "n">>, <<"t", "u", "e">>, <<"w", "e", "d">>,
             <<"t", "h", "u">>, <<"f", "r", "i">>, <<"s", "a", "t">>, <<"7">> } |->
        CASE k = <<"s", "u", "n">> -> 0 [] k = <<"m", "o", "n">> -> 1
          [] k = <<"t", "u", "e">> -> 2 [] k = <<"w", "e", "d">> -> 3
          [] k = <<"t", "h", "u">> -> 4 [] k = <<"f", "r", "i">> -> 5
          [] k = <<"s", "a", "t">> -> 6 [] k = <<"7">> -> 0]

\* an error value: what failed and the text or field name it mentions
Err(kind, text) == [kind |-> kind, text |-> text]

\* the nil error
NoErr == Err("nil", <<>>)

\* a (value, error) result
Result(value, err) == [value |-> value, err |-> err]

\* rangeSpec{}
ZeroRange == R(0, 0, 0)

\* mutant of substituteOrAtoi: the integer is tried first, the table second
atoiOrSubstitute(text, substitutions) ==
    IF Atoi(text).ok THEN Atoi(text)
    ELSE IF text \in DOMAIN substitutions THEN [ok |-> TRUE, val |-> substitutions[text]]
    ELSE [ok |-> FALSE, val |-> 0]

\* a VALUE of a range: substitutions[text] when the key is present, else
\* strconv.Atoi(text)
substituteOrAtoi(text, substitutions) ==
    IF text \in DOMAIN substitutions
    THEN [ok |-> TRUE, val |-> substitutions[text]]
    ELSE Atoi(text)

parseRangeSpec(s, field, substitutions) ==
    LET slashParts == SplitN2(s, "/")
        parsedStep == IF Len(slashParts) = 2 THEN Atoi(slashParts[2]) ELSE [ok |-> TRUE, val |-> 1]
        star == slashParts[1] \in {<<"*">>, <<"?">>}
        dashParts == SplitN2(slashParts[1], "-")
        parsedStart == substituteOrAtoi(dashParts[1], substitutions)
        parsedEnd == IF Len(dashParts) > 1
                     THEN substituteOrAtoi(dashParts[2], substitutions)
                     ELSE parsedStart
        r == IF star THEN R(field.min, field.max, parsedStep.val)
             ELSE R(parsedStart.val, parsedEnd.val, parsedStep.val)
    IN  IF ~parsedStep.ok THEN Result(ZeroRange, Err("step", slashParts[2]))
        ELSE IF ~star /\ ~parsedStart.ok THEN Result(ZeroRange, Err("start", dashParts[1]))
        ELSE IF ~star /\ ~parsedEnd.ok THEN Result(ZeroRange, Err("end", dashParts[2]))
        ELSE IF ~rangeValid(r, field) THEN Result(ZeroRange, Err("bounds", <<field.name>>))
        ELSE Result(r, NoErr)

\* the loop of parseListSpec over the range strings left, rangeSpecs so far
RECURSIVE parseRanges(_, _, _, _)
parseRanges(rangeStrings, field, substitutions, rangeSpecs) ==
    IF rangeStrings = <<>> THEN Result(rangeSpecs, NoErr)
    ELSE CHOOSE result \in
             { IF parsed.err # NoErr THEN Result(<<>>, parsed.err)
               ELSE parseRanges(Tail(rangeStrings), field, substitutions,
                                Append(rangeSpecs, parsed.value)) :
                   parsed \in {parseRangeSpec(Head(rangeStrings), field, substitutions)} } : TRUE

parseListSpec(s, field, substitutions) ==
    CHOOSE result \in
        { parseRanges(rangeStrings, field, substitutions, <<>>) :
              rangeStrings \in {Split(s, ",")} } : TRUE

\* Schedule{}
ZeroSchedule == Schedule(<<>>, <<>>, <<>>, <<>>, <<>>)

ParseSchedule(fields) ==
    IF Len(fields) # 5 THEN Result(ZeroSchedule, Err("fields", <<>>))
    ELSE CHOOSE result \in
             { IF minute.err # NoErr THEN Result(ZeroSchedule, minute.err)
               ELSE IF hour.err # NoErr THEN Result(ZeroSchedule, hour.err)
               ELSE IF day.err # NoErr THEN Result(ZeroSchedule, day.err)
               ELSE IF month.err # NoErr THEN Result(ZeroSchedule, month.err)
               ELSE IF weekday.err # NoErr THEN Result(ZeroSchedule, weekday.err)
               ELSE Result(Schedule(minute.value, hour.value, day.value, month.value,
                                    weekday.value), NoErr) :
                   minute \in {parseListSpec(fields[1], minuteField, NoSubstitutions)},
                   hour \in {parseListSpec(fields[2], hourField, NoSubstitutions)},
                   day \in {parseListSpec(fields[3], dayField, NoSubstitutions)},
                   month \in {parseListSpec(fields[4], monthField, monthSubstitutions)},
                   weekday \in {parseListSpec(fields[5], weekdayField, weekdaySubstitutions)} } : TRUE

\* MustParseSchedule on fields that parse
MustParseSchedule(fields) == ParseSchedule(fields).value

\* the keys of predefinedLabels
predefinedLabelKeys ==
    { <<"@", "y", "e", "a", "r", "l", "y">>, <<"@", "a", "n", "n", "u", "a", "l", "l", "y">>,
      <<"@", "m", "o", "n", "t", "h", "l", "y">>, <<"@", "w", "e", "e", "k", "l", "y">>,
      <<"@", "d", "a", "i", "l", "y">>, <<"@", "m", "i", "d", "n", "i", "g", "h", "t">>,
      <<"@", "h", "o", "u", "r", "l", "y">> }

\* the five fields of the schedule text that predefinedLabels gives for a label
predefinedLabelFields(label) ==
    CASE label \in { <<"@", "y", "e", "a", "r", "l", "y">>,
                     <<"@", "a", "n", "n", "u", "a", "l", "l", "y">> } ->
             << <<"0">>, <<"0">>, <<"1">>, <<"1">>, <<"*">> >>
      [] label = <<"@", "m", "o", "n", "t", "h", "l", "y">> ->
             << <<"0">>, <<"0">>, <<"1">>, <<"*">>, <<"*">> >>
      [] label = <<"@", "w", "e", "e", "k", "l", "y">> ->
             << <<"0">>, <<"0">>, <<"*">>, <<"*">>, <<"0">> >>
      [] label \in { <<"@", "d", "a", "i", "l", "y">>,
                     <<"@", "m", "i", "d", "n", "i", "g", "h", "t">> } ->
             << <<"0">>, <<"0">>, <<"*">>, <<"*">>, <<"*">> >>
      [] label = <<"@", "h", "o", "u", "r", "l", "y">> ->
             << <<"0">>, <<"*">>, <<"*">>, <<"*">>, <<"*">> >>

\* predefinedLabels[label], for a label that is one of the keys
predefinedLabels(label) == MustParseSchedule(predefinedLabelFields(label))

\* the first field of s: the characters up to the first white space
FirstField(s) ==
    LET spaces == {k \in 1..Len(s) : IsSpace(s[k])}
    IN  IF spaces = {} THEN s
        ELSE SubSeq(s, 1, (CHOOSE k \in spaces : \A j \in spaces : k <= j) - 1)

\* fieldsn.FieldsN(s, n): the fields of s between runs of white space, at most
\* n of them; the nth field is the rest of s, as it stands
RECURSIVE FieldsN(_, _)
FieldsN(s, n) ==
    IF n = 0 THEN <<>>
    ELSE CHOOSE fields \in
             { IF t = <<>> THEN <<>>
               ELSE IF n = 1 THEN <<t>>
               ELSE <<FirstField(t)>>
                        \o FieldsN(SubSeq(t, Len(FirstField(t)) + 1, Len(t)), n - 1) :
                   t \in {TrimLeft(s)} } : TRUE

\* fields[0:5]: the slice extended over its backing array, whose elements past
\* len(fields) are empty strings (ParseEntry returns an error on lines of
\* fewer than five fields: parse_test.go, testBad("lol"))
FirstFive(fields) ==
    [k \in 1..5 |-> IF k <= Len(fields) THEN fields[k] ELSE <<>>]

\* crontab.Entry{Schedule, Command}
Entry(schedule, command) == [Schedule |-> schedule, Command |-> command]

\* Entry{}
ZeroEntry == Entry(ZeroSchedule, <<>>)

\* ParseEntry past its test of line[0], on the fields of the line
ParseEntryFields(line, fields) ==
    IF line[1] = "@"
    THEN IF fields[1] \notin predefinedLabelKeys
         THEN Result(ZeroEntry, Err("label", fields[1]))
         ELSE Result(Entry(predefinedLabels(fields[1]),
                           IF Len(fields) > 1 THEN fields[2] ELSE <<>>), NoErr)
    ELSE CHOOSE result \in
             { IF parsedSchedule.err # NoErr
               THEN Result(ZeroEntry, parsedSchedule.err)
               ELSE Result(Entry(parsedSchedule.value,
                                 IF Len(fields) > 5 THEN fields[6] ELSE <<>>), NoErr) :
                   parsedSchedule \in {ParseSchedule(FirstFive(fields))} } : TRUE

\* ParseEntry on a line that is not empty
ParseEntry(line) ==
    CHOOSE result \in
        { ParseEntryFields(line, fields) :
              fields \in {FieldsN(line, IF line[1] = "@" THEN 2 ELSE 6)} } : TRUE

\* ParseCrontab(s) at the head of its loop; lines is strings.Split(s, "\n"),
\* k the index of the line the loop is at
ParseCrontabCall(s) ==
    [pc |-> "loop", s |-> s, lines |-> Split(s, "\n"), k |-> 1, entries |-> <<>>, err |-> NoErr]

\* no activation of ParseCrontab
NoParse == [ParseCrontabCall(<<>>) EXCEPT !.pc = "idle"]

\* a call of parseListSpec for the column `column` (1 minute .. 5 weekday)
ParseFieldCall(column, s) ==
    [pc |-> "call", column |-> column, s |-> s, result |-> Result(<<>>, NoErr)]

\* no call of parseListSpec
NoFieldCall == [ParseFieldCall(1, <<>>) EXCEPT !.pc = "idle"]

\* no activation of executeCommand
NoExec == [pc |-> "idle", command |-> "", calls |-> <<>>, pushErr |-> FALSE]

\* the other machines at rest
ParserIdle == parse = NoParse /\ fieldCall = NoFieldCall

\* watchCrontab not started
NoWatch == [pc |-> "idle", polls |-> 0, contents |-> <<>>, entries |-> <<>>, outcomes |-> <<>>]

\* no goroutine is in a method of the repo
NoGit == [lastTempBranch |-> 0, issued |-> <<>>, mu |-> <<>>, procs |-> <<>>]

RepoIdle == watch = NoWatch /\ git = NoGit

(***************************************************************************)
(* Schedule.Next as a state machine: one activation, run loop iteration by *)
(* loop iteration, on a schedule and a time drawn from the sets below.     *)
(***************************************************************************)
\* the schedules the activation is run on: values ParseEntry returns
Schedules ==
    { EveryMinute, EveryFive, RangeStep, MinuteList, Hourly, Daily, Weekly, Monthly,
      Yearly, Day13OrFriday, SteppedDayOrWorkday, Feb31, LeapDay, LastMinuteOfYear,
      NegativeStep, ZeroStep, ZeroStepDay }

\* how many days after each base time the argument may lie
MaxOffsetDays == 1

\* the base times: those of the package's tests, month and year ends, and
\* leap days on either side of 2100 (not a leap year)
BaseTimes ==
    { Date(2000, 1, 1, 0, 0, 0, 0),   Date(2000, 1, 1, 0, 10, 0, 0),
      Date(2000, 1, 1, 0, 25, 0, 0),  Date(2000, 1, 1, 0, 55, 0, 0),
      Date(2000, 1, 13, 0, 0, 0, 0),  Date(2000, 2, 11, 0, 0, 0, 0),
      Date(2000, 2, 28, 23, 59, 0, 0), Date(2000, 12, 30, 23, 59, 0, 0),
      Date(2092, 2, 29, 0, 0, 0, 0),  Date(2096, 2, 29, 0, 0, 0, 0),
      Date(2096, 2, 28, 12, 30, 0, 0), Date(2100, 2, 27, 23, 58, 0, 0) }

\* the seconds and nanoseconds of the argument: on the minute, one nanosecond
\* after it, one nanosecond before the next
SubMinutes == { <<0, 0>>, <<0, 1>>, <<59, 999999999>> }

Times ==
    { [min |-> b.min + k * MinutesPerDay, sec |-> sn[1], nsec |-> sn[2]] :
        b \in BaseTimes, k \in 0..MaxOffsetDays, sn \in SubMinutes }

\* no activation in progress
NoCall == [Activation(EveryMinute, ZeroTime) EXCEPT !.pc = "done"]

\* the supervisor as main starts it: no snapshot accepted, stopTime nil (0).
\* log and due are history: log[g] records what accepting snapshot g did, due
\* the fires that were already due when a later snapshot was accepted.
SupervisorIdle ==
    /\ clock = ZeroTime
    /\ sup = [stopTime |-> 0, accepted |-> 0, log |-> <<>>, due |-> {}]
    /\ chans = <<>>
    /\ tasks = <<>>
    /\ runs = {}

supervisorVars == <<clock, sup, chans, tasks, runs>>

InitCall ==
    /\ nextCall \in {Activation(s, t) : s \in Schedules, t \in Times}
    /\ SupervisorIdle
    /\ ParserIdle
    /\ exec = NoExec
    /\ RepoIdle

CallStart ==
    /\ nextCall.pc = "start"
    /\ nextCall' = Counted(StartStep(nextCall))
    /\ UNCHANGED <<supervisorVars, parse, fieldCall, exec, watch, git>>

CallWrap ==
    /\ nextCall.pc = "wrap"
    /\ nextCall' = Counted(WrapStep(nextCall))
    /\ UNCHANGED <<supervisorVars, parse, fieldCall, exec, watch, git>>

CallMonth ==
    /\ nextCall.pc = "month"
    /\ nextCall' = Counted(MonthStep(nextCall))
    /\ UNCHANGED <<supervisorVars, parse, fieldCall, exec, watch, git>>

CallDay ==
    /\ nextCall.pc = "day"
    /\ nextCall' = Counted(DayStep(nextCall))
    /\ UNCHANGED <<supervisorVars, parse, fieldCall, exec, watch, git>>

CallHour ==
    /\ nextCall.pc = "hour"
    /\ nextCall' = Counted(HourStep(nextCall))
    /\ UNCHANGED <<supervisorVars, parse, fieldCall, exec, watch, git>>

CallMinute ==
    /\ nextCall.pc = "minute"
    /\ nextCall' = Counted(MinuteStep(nextCall))
    /\ UNCHANGED <<supervisorVars, parse, fieldCall, exec, watch, git>>

CallStep == CallStart \/ CallWrap \/ CallMonth \/ CallDay \/ CallHour \/ CallMinute

\* Schedule.Next on every schedule and time of the sets above
SpecNext == InitCall /\ [][CallStep]_vars

(***************************************************************************)
(* The live supervisor (crony.go): executeCrontab and the executeEntry     *)
(* goroutines it spawns.                                                   *)
(***************************************************************************)
\* "* * * * * a"
EntryA == Entry(EveryMinute, "a")

\* "*/2 * * * * b"
EntryB == Entry(EveryTwo, "b")

\* "0 0 31 2 * never"
EntryNever == Entry(Feb31, "never")

\* the crontabs a pull may deliver, as ParseCrontab returns them
Snapshots == { <<EntryA>>, <<EntryA, EntryB>>, <<EntryNever>> }

\* the process starts at 2000-01-01 00:00:00
StartTime == Date(2000, 1, 1, 0, 0, 0, 0)

\* the clock is read every TickSeconds seconds, MaxTicks times at most
TickSeconds == 30

MaxTicks == 4

\* at most MaxSnapshots crontabs are delivered
MaxSnapshots == 3

\* at most MaxRuns executions of a command are started
MaxRuns == 3

\* t.Add(n * time.Second), for n below 60
AddSeconds(t, n) ==
    [t EXCEPT !.min = @ + ((t.sec + n) \div 60), !.sec = (t.sec + n) % 60]

\* the seconds from StartTime to a clock reading
Elapsed(t) == (t.min - StartTime.min) * 60 + t.sec

\* past the last clock reading
EndTime == AddMinutes(StartTime, (MaxTicks * TickSeconds) \div 60 + 1)

\* the schedules of the entries above
EntrySchedules == {EveryMinute, EveryTwo, Feb31}

\* the times the supervisor can pass to Next: the clock readings, the instants
\* Next returns for them, and the zero time
SupervisorTimes ==
    {ZeroTime} \union
    { [min |-> m, sec |-> x, nsec |-> 0] :
        m \in StartTime.min..(EndTime.min + 2),
        x \in {y \in 0..59 : y % TickSeconds = 0} }

\* Schedule.Next tabulated on those schedules and times
NextTable ==
    [s \in EntrySchedules |-> [t \in SupervisorTimes |-> ScheduleNext(s, t)]]

\* entry.Schedule.Next(t) as executeEntry calls it
EntryNext(entry, t) == NextTable[entry.Schedule][t]

Init ==
    /\ nextCall = NoCall
    /\ ParserIdle
    /\ exec = NoExec
    /\ RepoIdle
    /\ clock = StartTime
    /\ sup = [stopTime |-> 0, accepted |-> 0, log |-> <<>>, due |-> {}]
    /\ chans = <<>>
    /\ tasks = <<>>
    /\ runs = {}

\* time passes
Tick ==
    /\ Elapsed(clock) < MaxTicks * TickSeconds
    /\ clock' = AddSeconds(clock, TickSeconds)
    /\ UNCHANGED <<parse, fieldCall, exec, watch, git, nextCall, sup, chans, tasks, runs>>

\* mutant of StopTimeAfterMake: the new channel assigned to the variable of
\* the enclosing scope (=)
StopTimeAssigned(outer, made) == made

\* stopTime := make(chan time.Time, 1) declares a new variable in the scope of
\* the case: the stopTime declared before the loop keeps its value
StopTimeAfterMake(outer, made) == outer

\* the executeEntry goroutine as spawned, at its select: next := Next(now)
Spawned(entry, gen, now, stopTime) ==
    [entry |-> entry, gen |-> gen, stopTime |-> stopTime, now |-> now,
     next |-> EntryNext(entry, now), pc |-> "select",
     t |-> ZeroTime, start |-> ZeroTime, overran |-> FALSE, fired |-> 0]

\* the fires already due at `now`: tasks of the generation being superseded
\* that wait at their select on a target that has been reached
DueAt(now) ==
    { [entry |-> tasks[i].entry, instant |-> tasks[i].next] :
        i \in { j \in 1..Len(tasks) :
                  /\ tasks[j].gen = sup.accepted
                  /\ tasks[j].pc = "select"
                  /\ ~Before(now, tasks[j].next) } }

\* executeCrontab, one iteration of its loop, on the entries received from
\* crontabUpdates
executeCrontabReceive(entries) ==
    LET now == clock
        stopped == sup.stopTime
        made == Len(chans) + 1
        gen == sup.accepted + 1
    IN  /\ sup.accepted < MaxSnapshots
        /\ stopped # 0 => Len(chans[stopped]) = 0
        /\ chans' = Append(IF stopped # 0
                           THEN [chans EXCEPT ![stopped] = Append(@, now)]
                           ELSE chans,
                           <<>>)
        /\ sup' = [stopTime |-> StopTimeAfterMake(sup.stopTime, made),
                   accepted |-> gen,
                   log |-> Append(sup.log, [now |-> now, stopped |-> stopped, made |-> made]),
                   due |-> sup.due \union DueAt(now)]
        /\ tasks' = tasks \o [k \in 1..Len(entries) |-> Spawned(entries[k], gen, now, made)]
        /\ UNCHANGED <<parse, fieldCall, exec, git, nextCall, clock, runs>>

\* executeCrontab, one iteration of its loop: a crontab is received
executeCrontab(entries) == executeCrontabReceive(entries) /\ UNCHANGED watch

\* a cutoff has been sent on stop channel c: it is in the channel, or a task
\* has taken it out and not yet put it back
StopIssued(c) ==
    \/ Len(chans[c]) > 0
    \/ \E j \in 1..Len(tasks) : tasks[j].stopTime = c /\ tasks[j].pc = "resend"

\* a run of executeCommand, as recorded when it starts: the nth call made by
\* task i, for the instant the task was waiting on, and whether a cutoff had
\* been sent on the task's stop channel by then
Run(i, via) ==
    [task |-> i, entry |-> tasks[i].entry, instant |-> tasks[i].next, via |-> via,
     nth |-> tasks[i].fired + 1, afterStop |-> StopIssued(tasks[i].stopTime)]

\* mutant of executeEntryTimer: the timer fires without waiting for next
executeEntryTimerEarly(i) ==
    /\ tasks[i].pc = "select"
    /\ Cardinality(runs) < MaxRuns
    /\ tasks' = [tasks EXCEPT ![i].pc = "timerRun", ![i].start = tasks[i].next]
    /\ runs' = runs \union {Run(i, "timer")}
    /\ UNCHANGED <<parse, fieldCall, exec, watch, git, nextCall, clock, sup, chans>>

\* case <-time.After(next.Sub(time.Now())): the timer has fired (at once when
\* the duration is not positive); start := next; executeCommand is called
executeEntryTimer(i) ==
    /\ tasks[i].pc = "select"
    /\ ~Before(clock, tasks[i].next)
    /\ Cardinality(runs) < MaxRuns
    /\ tasks' = [tasks EXCEPT ![i].pc = "timerRun", ![i].start = tasks[i].next]
    /\ runs' = runs \union {Run(i, "timer")}
    /\ UNCHANGED <<parse, fieldCall, exec, watch, git, nextCall, clock, sup, chans>>

\* if !now.Before(next)
Overran(now, next) == ~Before(now, next)

\* mutant of executeEntryAfterRun: now is not read again after the command, so
\* the head of the loop computes next from the time it used before
executeEntryAfterRunStaleNow(i) ==
    /\ tasks[i].pc = "timerRun"
    /\ tasks' = [tasks EXCEPT
                    ![i].pc = "select",
                    ![i].overran = Overran(tasks[i].now, EntryNext(tasks[i].entry, tasks[i].next)),
                    ![i].fired = @ + 1,
                    ![i].next = EntryNext(tasks[i].entry, tasks[i].now)]
    /\ UNCHANGED <<parse, fieldCall, exec, watch, git, nextCall, clock, sup, chans, runs>>

\* executeCommand has returned: now = time.Now(); next = Next(next); the
\* overrun test; then the head of the loop, next := Next(now)
executeEntryAfterRun(i) ==
    /\ tasks[i].pc = "timerRun"
    /\ tasks' = [tasks EXCEPT
                    ![i].pc = "select",
                    ![i].now = clock,
                    ![i].overran = Overran(clock, EntryNext(tasks[i].entry, tasks[i].next)),
                    ![i].fired = @ + 1,
                    ![i].next = EntryNext(tasks[i].entry, clock)]
    /\ UNCHANGED <<parse, fieldCall, exec, watch, git, nextCall, clock, sup, chans, runs>>

\* mutant of executeEntryStop: the stop channel is also read while the command runs
executeEntryStopPreempts(i) ==
    /\ tasks[i].pc \in {"select", "timerRun"}
    /\ Len(chans[tasks[i].stopTime]) > 0
    /\ tasks' = [tasks EXCEPT ![i].pc = "resend", ![i].t = Head(chans[tasks[i].stopTime])]
    /\ chans' = [chans EXCEPT ![tasks[i].stopTime] = Tail(@)]
    /\ UNCHANGED <<parse, fieldCall, exec, watch, git, nextCall, clock, sup, runs>>

\* case t := <-stopTime
executeEntryStop(i) ==
    /\ tasks[i].pc = "select"
    /\ Len(chans[tasks[i].stopTime]) > 0
    /\ tasks' = [tasks EXCEPT ![i].pc = "resend", ![i].t = Head(chans[tasks[i].stopTime])]
    /\ chans' = [chans EXCEPT ![tasks[i].stopTime] = Tail(@)]
    /\ UNCHANGED <<parse, fieldCall, exec, watch, git, nextCall, clock, sup, runs>>

\* mutant of FinalRunDue: a cutoff equal to the pending target does not count
FinalRunDueStrict(t, next) == Before(next, t)

\* if !t.Before(next)
FinalRunDue(t, next) == ~Before(t, next)

\* stopTime <- t; then executeCommand if the cutoff has reached next; return
executeEntryResend(i) ==
    /\ tasks[i].pc = "resend"
    /\ Len(chans[tasks[i].stopTime]) = 0
    /\ chans' = [chans EXCEPT ![tasks[i].stopTime] = Append(@, tasks[i].t)]
    /\ IF FinalRunDue(tasks[i].t, tasks[i].next)
       THEN /\ tasks' = [tasks EXCEPT ![i].pc = "finalRun"]
            /\ runs' = runs \union {Run(i, "stop")}
       ELSE /\ tasks' = [tasks EXCEPT ![i].pc = "returned"]
            /\ runs' = runs
    /\ UNCHANGED <<parse, fieldCall, exec, watch, git, nextCall, clock, sup>>

\* the final executeCommand has returned; return
executeEntryReturn(i) ==
    /\ tasks[i].pc = "finalRun"
    /\ tasks' = [tasks EXCEPT ![i].pc = "returned"]
    /\ UNCHANGED <<parse, fieldCall, exec, watch, git, nextCall, clock, sup, chans, runs>>

\* a caller of executeEntry sends the cutoff on the stop channel it passed
\* (stopTime <- now), once per channel
SendCutoff(c) ==
    /\ Len(chans[c]) = 0
    /\ \A i \in 1..Len(tasks) : tasks[i].stopTime = c => tasks[i].pc \in {"select", "timerRun"}
    /\ chans' = [chans EXCEPT ![c] = <<clock>>]
    /\ UNCHANGED <<parse, fieldCall, exec, watch, git, nextCall, clock, sup, tasks, runs>>

\* The program: the stop branch of executeEntry is left out of it, because no
\* value is ever sent on a stop channel (StopChannelsStayEmpty).
Next ==
    \/ Tick
    \/ \E entries \in Snapshots : executeCrontab(entries)
    \/ \E i \in 1..Len(tasks) : executeEntryTimer(i)
    \/ \E i \in 1..Len(tasks) : executeEntryAfterRun(i)

Spec == Init /\ [][Next]_vars

\* under Spec the guard of the stop branch is never true
StopChannelsStayEmpty ==
    /\ sup.stopTime = 0
    /\ \A c \in 1..Len(chans) : chans[c] = <<>>

\* the program with the stop branch: the same behaviours as Spec, because
\* StopChannelsStayEmpty holds of it too
NextWithStopBranch ==
    \/ Next
    \/ \E i \in 1..Len(tasks) : executeEntryStop(i)
    \/ \E i \in 1..Len(tasks) : executeEntryResend(i)
    \/ \E i \in 1..Len(tasks) : executeEntryReturn(i)

SpecWithStopBranch == Init /\ [][NextWithStopBranch]_vars

\* the first iteration of executeCrontab only: one generation is spawned
executeCrontabOnce(entries) ==
    /\ sup.accepted = 0
    /\ executeCrontab(entries)

\* executeEntry with every caller: the goroutines of one generation, spawned as
\* executeCrontab spawns them, and a cutoff sent on their stop channel at any
\* moment
NextEntry ==
    \/ Tick
    \/ \E entries \in Snapshots : executeCrontabOnce(entries)
    \/ \E c \in 1..Len(chans) : SendCutoff(c)
    \/ \E i \in 1..Len(tasks) : executeEntryTimer(i)
    \/ \E i \in 1..Len(tasks) : executeEntryAfterRun(i)
    \/ \E i \in 1..Len(tasks) : executeEntryStop(i)
    \/ \E i \in 1..Len(tasks) : executeEntryResend(i)
    \/ \E i \in 1..Len(tasks) : executeEntryReturn(i)

SpecEntry == Init /\ [][NextEntry]_vars

(***************************************************************************)
(* The parser as state machines: one activation of ParseCrontab, run line  *)
(* by line, and single calls of parseListSpec.                             *)
(***************************************************************************)
\* the parts of s joined by sep
RECURSIVE Join(_, _)
Join(parts, sep) ==
    IF Len(parts) = 0 THEN <<>>
    ELSE IF Len(parts) = 1 THEN parts[1]
    ELSE parts[1] \o <<sep>> \o Join(Tail(parts), sep)

\* the lines a crontab is made of: entries, comments, blank lines, a comment
\* mark inside a command, labels, and lines that do not parse
CrontabLines ==
    { <<"0", " ", "1", " ", "2", " ", "3", " ", "4", " ", "a">>,
      <<"1", " ", "2", " ", "3", " ", "4", " ", "5", " ", "b">>,
      <<"#", " ", "c">>,
      <<>>,
      <<" ", " ">>,
      <<" ", " ", " ", "#", " ", "c">>,
      <<"t", "h", "i", "s", " ", "l", "i", "n", "e", " ", "i", "s", " ", "b", "o", "g", "u", "s">>,
      <<"0", " ", "1", " ", "2", " ", "3", " ", "4", " ", "#", " ", "x">>,
      <<"@", "d", "a", "i", "l", "y", " ", "d">>,
      <<"@", "b", "o", "g", "u", "s">>,
      <<"*", " ", "*", " ", "*">>,
      <<"6", "0", " ", "*", " ", "*", " ", "*", " ", "*", " ", "e">> }

\* a crontab has at most MaxLines lines
MaxLines == 3

\* the strings ParseCrontab is called on
Crontabs ==
    { Join(ls, "\n") : ls \in UNION { [1..n -> CrontabLines] : n \in 1..MaxLines } }

\* everything but the parser at rest
ParserEnvIdle ==
    /\ nextCall = NoCall
    /\ SupervisorIdle
    /\ exec = NoExec
    /\ RepoIdle

InitParse ==
    /\ parse \in { ParseCrontabCall(s) : s \in Crontabs }
    /\ fieldCall = NoFieldCall
    /\ ParserEnvIdle

\* the line of the current iteration: strings.TrimLeftFunc(line, unicode.IsSpace)
ParseLine == TrimLeft(parse.lines[parse.k])

\* if line == "" || line[0] == '#'
Skipped(line) == IF line = <<>> THEN TRUE ELSE line[1] = "#"

AtLine == parse.pc = "loop" /\ parse.k <= Len(parse.lines)

\* an empty line or a comment: continue
ParseCrontabSkip ==
    /\ AtLine
    /\ Skipped(ParseLine)
    /\ parse' = [parse EXCEPT !.k = @ + 1]
    /\ UNCHANGED <<supervisorVars, nextCall, fieldCall, exec, watch, git>>

\* the line parses: entries = append(entries, entry)
ParseCrontabAppend ==
    /\ AtLine
    /\ ~Skipped(ParseLine)
    /\ \E parsed \in {ParseEntry(ParseLine)} :
           /\ parsed.err = NoErr
           /\ parse' = [parse EXCEPT !.k = @ + 1, !.entries = Append(@, parsed.value)]
    /\ UNCHANGED <<supervisorVars, nextCall, fieldCall, exec, watch, git>>

\* mutant of ParseCrontabError: the entries parsed so far are returned with the error
ParseCrontabErrorKeepsEntries ==
    /\ AtLine
    /\ ~Skipped(ParseLine)
    /\ \E parsed \in {ParseEntry(ParseLine)} :
           /\ parsed.err # NoErr
           /\ parse' = [parse EXCEPT !.pc = "done", !.err = parsed.err]
    /\ UNCHANGED <<supervisorVars, nextCall, fieldCall, exec, watch, git>>

\* the line does not parse: return nil, err
ParseCrontabError ==
    /\ AtLine
    /\ ~Skipped(ParseLine)
    /\ \E parsed \in {ParseEntry(ParseLine)} :
           /\ parsed.err # NoErr
           /\ parse' = [parse EXCEPT !.pc = "done", !.entries = <<>>, !.err = parsed.err]
    /\ UNCHANGED <<supervisorVars, nextCall, fieldCall, exec, watch, git>>

\* the loop is over: return entries, nil
ParseCrontabReturn ==
    /\ parse.pc = "loop"
    /\ parse.k > Len(parse.lines)
    /\ parse' = [parse EXCEPT !.pc = "done"]
    /\ UNCHANGED <<supervisorVars, nextCall, fieldCall, exec, watch, git>>

NextParse ==
    \/ ParseCrontabSkip
    \/ ParseCrontabAppend
    \/ ParseCrontabError
    \/ ParseCrontabReturn

\* ParseCrontab on every crontab of the set above
SpecParse == InitParse /\ [][NextParse]_vars

\* the VALUEs of a range: numbers inside and outside the bounds, names, a
\* signed number, and texts that are neither
FieldValues ==
    { <<"0">>,
      <<"1">>,
      <<"5">>,
      <<"7">>,
      <<"1", "2">>,
      <<"3", "1">>,
      <<"6", "0">>,
      <<"j", "a", "n">>,
      <<"w", "e", "d">>,
      <<"t", "h", "u">>,
      <<"x">>,
      <<>>,
      <<"+", "3">> }

\* BASE: * or ?, a VALUE, or VALUE-VALUE
FieldBases ==
    { <<"*">>, <<"?">> } \union FieldValues
        \union { a \o <<"-">> \o b : a, b \in FieldValues }

\* /STEP, or none
FieldSteps ==
    { <<>>,
      <<"/", "0">>,
      <<"/", "1">>,
      <<"/", "2">>,
      <<"/", "-", "2">>,
      <<"/", "x">>,
      <<"/">> }

\* the month names
MonthNames ==
    { <<"j", "a", "n">>,
      <<"f", "e", "b">>,
      <<"m", "a", "r">>,
      <<"a", "p", "r">>,
      <<"m", "a", "y">>,
      <<"j", "u", "n">>,
      <<"j", "u", "l">>,
      <<"a", "u", "g">>,
      <<"s", "e", "p">>,
      <<"o", "c", "t">>,
      <<"n", "o", "v">>,
      <<"d", "e", "c">> }

\* unicode.ToUpper on the letters of the month names
ToUpper(c) ==
    CASE c = "a" -> "A" [] c = "b" -> "B" [] c = "c" -> "C" [] c = "d" -> "D" [] c = "e" -> "E" [] c = "f" -> "F" [] c = "g" -> "G" [] c = "j" -> "J" [] c = "l" -> "L" [] c = "m" -> "M" [] c = "n" -> "N" [] c = "o" -> "O" [] c = "p" -> "P" [] c = "r" -> "R" [] c = "s" -> "S" [] c = "t" -> "T" [] c = "u" -> "U" [] c = "v" -> "V" [] c = "y" -> "Y" [] OTHER -> c

\* the spellings of a three-letter name in upper and lower case
Spellings(name) ==
    { [k \in 1..3 |-> IF k \in up THEN ToUpper(name[k]) ELSE name[k]] : up \in SUBSET (1..3) }

\* the members of the comma-separated lists
ListMembers ==
    { <<"7", "-", "w", "e", "d", "/", "2">>,
      <<"t", "h", "u">>,
      <<"*">>,
      <<"1", "-", "5">>,
      <<"*", "/", "0">>,
      <<"x">> }

\* a list has at most MaxListLen members
MaxListLen == 2

\* the field strings parseListSpec is called on
FieldStrings ==
    { b \o st : b \in FieldBases, st \in FieldSteps }
        \union UNION { Spellings(name) : name \in MonthNames }
        \union { Join(ms, ",") : ms \in UNION { [1..n -> ListMembers] : n \in 2..MaxListLen } }

\* the field descriptor and the substitution table ParseSchedule passes for a column
ColumnField(column) ==
    CASE column = 1 -> minuteField [] column = 2 -> hourField [] column = 3 -> dayField
      [] column = 4 -> monthField [] column = 5 -> weekdayField

ColumnSubstitutions(column) ==
    CASE column = 4 -> monthSubstitutions [] column = 5 -> weekdaySubstitutions
      [] OTHER -> NoSubstitutions

InitField ==
    /\ fieldCall \in { ParseFieldCall(column, s) : column \in 1..5, s \in FieldStrings }
    /\ parse = NoParse
    /\ ParserEnvIdle

\* parseListSpec(fields[column - 1], field, substitutions), as ParseSchedule calls it
ParseField ==
    /\ fieldCall.pc = "call"
    /\ fieldCall' = [fieldCall EXCEPT
                        !.pc = "done",
                        !.result = parseListSpec(fieldCall.s, ColumnField(fieldCall.column),
                                                 ColumnSubstitutions(fieldCall.column))]
    /\ UNCHANGED <<supervisorVars, nextCall, parse, exec, watch, git>>

\* parseListSpec on every column and field string of the sets above
SpecField == InitField /\ [][ParseField]_vars

(***************************************************************************)
(* executeCommand (crony.go) and workdir.Push (git.go), as a state machine  *)
(* of one execution.  Every collaborator call may succeed or fail; exec.calls*)
(* records the calls made, in order, with their outcome.                    *)
(***************************************************************************)
\* the commands of the entries
Commands == {EntryA.Command, EntryNever.Command}

\* a collaborator call and whether it returned without error
Call(op, ok) == [op |-> op, ok |-> ok]

\* executeCommand(command, repo) on entry; pushErr is the error Push returns
ExecCall(command) == [pc |-> "branch", command |-> command, calls |-> <<>>, pushErr |-> FALSE]

InitCommand ==
    /\ exec \in { ExecCall(command) : command \in Commands }
    /\ nextCall = NoCall
    /\ SupervisorIdle
    /\ ParserIdle
    /\ RepoIdle

execEnv == <<supervisorVars, nextCall, parse, fieldCall, watch, git>>

\* w, err := repo.Branch(); on an error return, before w.Close is deferred
executeCommandBranch ==
    /\ exec.pc = "branch"
    /\ \E ok \in BOOLEAN :
           exec' = [exec EXCEPT !.calls = Append(@, Call("Branch", ok)),
                                !.pc = IF ok THEN "run" ELSE "returned"]
    /\ UNCHANGED execEnv

\* cmd.CombinedOutput(); when it fails, the .fail file is written (or not)
executeCommandRun ==
    /\ exec.pc = "run"
    /\ \E ok \in BOOLEAN, written \in BOOLEAN :
           exec' = [exec EXCEPT
                       !.calls = IF ok THEN Append(@, Call("bash", TRUE))
                                 ELSE @ \o <<Call("bash", FALSE), Call("WriteFile", written)>>,
                       !.pc = "commit"]
    /\ UNCHANGED execEnv

\* w.Commit(commitMsg): an error is logged ("nothing to commit") and the
\* function goes on to the merge
executeCommandCommit ==
    /\ exec.pc = "commit"
    /\ \E ok \in BOOLEAN :
           exec' = [exec EXCEPT !.calls = Append(@, Call("Commit", ok)), !.pc = "merge"]
    /\ UNCHANGED execEnv

\* repo.master.Merge(w); on an error return
executeCommandMerge ==
    /\ exec.pc = "merge"
    /\ \E ok \in BOOLEAN :
           exec' = [exec EXCEPT !.calls = Append(@, Call("Merge", ok)),
                                !.pc = IF ok THEN "push" ELSE "close"]
    /\ UNCHANGED execEnv

\* Push: w.git("push"); return nil when it succeeds
PushFirst ==
    /\ exec.pc = "push"
    /\ \E ok \in BOOLEAN :
           exec' = [exec EXCEPT !.calls = Append(@, Call("push", ok)),
                                !.pushErr = FALSE,
                                !.pc = IF ok THEN "close" ELSE "pull"]
    /\ UNCHANGED execEnv

\* mutant of PushPull: the second push is made whether or not the pull failed
PushPullThenPushAnyway ==
    /\ exec.pc = "pull"
    /\ \E ok \in BOOLEAN :
           exec' = [exec EXCEPT
                       !.calls = IF ok THEN Append(@, Call("pull", TRUE))
                                 ELSE @ \o <<Call("pull", FALSE), Call("rebase --abort", TRUE)>>,
                       !.pc = "pushAgain"]
    /\ UNCHANGED execEnv

\* Push, after the first push failed: w.pull(), that is git pull --rebase and,
\* when it fails, git rebase --abort and the error returned
PushPull ==
    /\ exec.pc = "pull"
    /\ \E ok \in BOOLEAN, aborted \in BOOLEAN :
           exec' = [exec EXCEPT
                       !.calls = IF ok THEN Append(@, Call("pull", TRUE))
                                 ELSE @ \o <<Call("pull", FALSE), Call("rebase --abort", aborted)>>,
                       !.pushErr = ~ok,
                       !.pc = IF ok THEN "pushAgain" ELSE "fetch"]
    /\ UNCHANGED execEnv

\* Push, after the pull: return w.git("push")
PushAgain ==
    /\ exec.pc = "pushAgain"
    /\ \E ok \in BOOLEAN :
           exec' = [exec EXCEPT !.calls = Append(@, Call("push", ok)),
                                !.pushErr = ~ok,
                                !.pc = IF ok THEN "close" ELSE "fetch"]
    /\ UNCHANGED execEnv

\* Push returned an error: repo.master.FetchHead()
executeCommandFetchHead ==
    /\ exec.pc = "fetch"
    /\ \E ok \in BOOLEAN :
           exec' = [exec EXCEPT !.calls = Append(@, Call("FetchHead", ok)), !.pc = "close"]
    /\ UNCHANGED execEnv

\* the deferred w.Close(), then the return
executeCommandClose ==
    /\ exec.pc = "close"
    /\ \E ok \in BOOLEAN :
           exec' = [exec EXCEPT !.calls = Append(@, Call("Close", ok)), !.pc = "returned"]
    /\ UNCHANGED execEnv

NextCommand ==
    \/ executeCommandBranch
    \/ executeCommandRun
    \/ executeCommandCommit
    \/ executeCommandMerge
    \/ PushFirst
    \/ PushPull
    \/ PushAgain
    \/ executeCommandFetchHead
    \/ executeCommandClose

\* one execution of a command, with every outcome of every collaborator call
SpecCommand == InitCommand /\ [][NextCommand]_vars

(***************************************************************************)
(* watchCrontab and pullCrontab (crony.go): the goroutine that pulls the   *)
(* crontab, parses it and hands it to executeCrontab over crontabUpdates,  *)
(* run together with executeCrontab and the executeEntry goroutines.       *)
(***************************************************************************)
\* ParseCrontab from line k on, entries so far
RECURSIVE ParseCrontabFrom(_, _, _)
ParseCrontabFrom(lines, k, entries) ==
    IF k > Len(lines) THEN Result(entries, NoErr)
    ELSE CHOOSE result \in
             { IF Skipped(line) THEN ParseCrontabFrom(lines, k + 1, entries)
               ELSE CHOOSE r \in
                        { IF parsed.err # NoErr THEN Result(<<>>, parsed.err)
                          ELSE ParseCrontabFrom(lines, k + 1, Append(entries, parsed.value)) :
                              parsed \in {ParseEntry(line)} } : TRUE :
                   line \in {TrimLeft(lines[k])} } : TRUE

\* crontab.ParseCrontab(s)
ParseCrontab(s) ==
    CHOOSE result \in { ParseCrontabFrom(lines, 1, <<>>) : lines \in {Split(s, "\n")} } : TRUE

\* the contents the crontab file may have when it is read: one entry, two
\* entries, an entry followed by a line that does not parse, a comment only
CrontabFiles ==
    { <<"*", " ", "*", " ", "*", " ", "*", " ", "*", " ", "a">>,
      <<"*", " ", "*", " ", "*", " ", "*", " ", "*", " ", "a", "\n",
        "*", "/", "2", " ", "*", " ", "*", " ", "*", " ", "*", " ", "b">>,
      <<"*", " ", "*", " ", "*", " ", "*", " ", "*", " ", "a", "\n", "l", "o", "l">>,
      <<"#", " ", "n", "o", "n", "e">> }

\* pullCrontab is called at most MaxPolls times
MaxPolls == 3

\* the goroutine of watchCrontab in its first call of pullCrontab, at m.Pull()
WatchStarted == [NoWatch EXCEPT !.pc = "pull", !.polls = 1]

InitWatch ==
    /\ nextCall = NoCall
    /\ ParserIdle
    /\ exec = NoExec
    /\ git = NoGit
    /\ clock = StartTime
    /\ sup = [stopTime |-> 0, accepted |-> 0, log |-> <<>>, due |-> {}]
    /\ chans = <<>>
    /\ tasks = <<>>
    /\ runs = {}
    /\ watch = WatchStarted

\* what pullCrontab leaves alone when it returns or moves on
watchEnv == <<supervisorVars, nextCall, parse, fieldCall, exec, git>>

\* how a call of pullCrontab ended: with the entries sent or with the error of
\* step `at`, and the contents of the crontab file if it was read
Outcome(result, at, contents) == [result |-> result, at |-> at, contents |-> contents]

\* pullCrontab returns the error of step `at`; watchCrontab logs it and waits
\* for the ticker
pullCrontabFailed(w, at, contents) ==
    [w EXCEPT !.pc = "wait", !.contents = <<>>, !.entries = <<>>,
              !.outcomes = Append(@, Outcome("error", at, contents))]

\* m.Pull(): on an error, on to m.FetchHead()
pullCrontabPull ==
    /\ watch.pc = "pull"
    /\ \E ok \in BOOLEAN : watch' = [watch EXCEPT !.pc = IF ok THEN "read" ELSE "fetchHead"]
    /\ UNCHANGED watchEnv

\* m.FetchHead(): on an error, return err
pullCrontabFetchHead ==
    /\ watch.pc = "fetchHead"
    /\ \E ok \in BOOLEAN :
           watch' = IF ok THEN [watch EXCEPT !.pc = "read"]
                    ELSE pullCrontabFailed(watch, "FetchHead", <<>>)
    /\ UNCHANGED watchEnv

\* mutant of pullCrontabParse: what ParseCrontab returned is sent on without a
\* look at its error
pullCrontabParseSendsAnyway(contents) ==
    CHOOSE w \in
        { [watch EXCEPT !.pc = "send", !.contents = contents, !.entries = parsed.value] :
              parsed \in {ParseCrontab(contents)} } : TRUE

\* crontab.ParseCrontab(string(contents)): on an error, return err
pullCrontabParse(contents) ==
    CHOOSE w \in
        { IF parsed.err # NoErr THEN pullCrontabFailed(watch, "ParseCrontab", contents)
          ELSE [watch EXCEPT !.pc = "send", !.contents = contents, !.entries = parsed.value] :
              parsed \in {ParseCrontab(contents)} } : TRUE

\* ioutil.ReadFile: on an error, return err; then ParseCrontab on the contents
pullCrontabReadFile ==
    /\ watch.pc = "read"
    /\ \/ watch' = pullCrontabFailed(watch, "ReadFile", <<>>)
       \/ \E contents \in CrontabFiles : watch' = pullCrontabParse(contents)
    /\ UNCHANGED watchEnv

\* crontabUpdates <- entries, received by executeCrontab (the channel has no
\* buffer: the send and the receive are one step); return nil
pullCrontabSend ==
    /\ watch.pc = "send"
    /\ executeCrontabReceive(watch.entries)
    /\ watch' = [watch EXCEPT !.pc = "wait", !.contents = <<>>, !.entries = <<>>,
                              !.outcomes = Append(@, Outcome("sent", "", watch.contents))]

\* for _ = range ticker.C: the next call of pullCrontab
watchCrontabTick ==
    /\ watch.pc = "wait"
    /\ watch.polls < MaxPolls
    /\ watch' = [watch EXCEPT !.pc = "pull", !.polls = @ + 1]
    /\ UNCHANGED watchEnv

NextWatch ==
    \/ pullCrontabPull
    \/ pullCrontabFetchHead
    \/ pullCrontabReadFile
    \/ pullCrontabSend
    \/ watchCrontabTick
    \/ Tick
    \/ \E i \in 1..Len(tasks) : executeEntryTimer(i)
    \/ \E i \in 1..Len(tasks) : executeEntryAfterRun(i)

\* the watcher, executeCrontab and the executeEntry goroutines together
SpecWatch == InitWatch /\ [][NextWatch]_vars

(***************************************************************************)
(* The repository: the goroutines in the methods of repo and workdir       *)
(* (git.go), the mutexes they take and the git commands they run.  A       *)
(* method is the sequence of its lock acquisitions, git commands and file  *)
(* operations; a git command starts in one step and exits in another.      *)
(***************************************************************************)

\* the executeEntry goroutines that run executeCommand on the repo
Executions == {"e1", "e2"}

\* the goroutine of watchCrontab
Watcher == "watcher"

Goroutines == Executions \cup {Watcher}

\* calls of executeCommand by one task
MaxCommands == 2

\* repo.mu
RepoMu == "repo"

\* repo.master: its directory and its mu; the workdir of an execution is
\* named by the execution
Master == "master"

Mutexes == {RepoMu, Master} \cup Executions

\* what a step of a method does when it succeeds and when it fails: go on to
\* the next step, skip one step, return nil or return the error
Lock(mu) == [op |-> "lock", at |-> mu, cmd |-> "Lock", ok |-> "next", fail |-> "next"]

\* w.git(args...): exec.Command("git", args...) with cmd.Dir = w.dir
Git(w, args, ok, fail) == [op |-> "git", at |-> w, cmd |-> args, ok |-> ok, fail |-> fail]

\* a step that runs no git command and takes no mutex
Do(what, ok, fail) == [op |-> "do", at |-> "", cmd |-> what, ok |-> ok, fail |-> fail]

\* mutant of tempBranchName: the name is read and the counter incremented
\* without repo.mu
tempBranchNameUnlocked ==
    << Do("Sprintf", "next", "next"),
       Do("lastTempBranch++", "return", "return") >>

\* r.mu.Lock(); defer r.mu.Unlock(); name from lastTempBranch; lastTempBranch++
tempBranchName ==
    << Lock(RepoMu),
       Do("Sprintf", "next", "next"),
       Do("lastTempBranch++", "return", "return") >>

\* repo.Branch after tempBranchName, for the new workdir w
Branch(w) ==
    << Do("Mkdir, Symlink", "next", "fail"),
       Lock(Master),
       Do("cp HEAD", "next", "fail"),
       Git(Master, "branch", "next", "fail"),
       Git(w, "checkout -f", "return", "fail") >>

\* w.pull(): on an error of the pull, rebase --abort and return the error
pull(w, ok) ==
    << Git(w, "pull --rebase", ok, "next"),
       Git(w, "rebase --abort", "fail", "fail") >>

Pull(w) == <<Lock(w)>> \o pull(w, "return")

FetchHead(w) ==
    << Lock(w),
       Git(w, "fetch origin", "next", "fail"),
       Git(w, "reset --hard FETCH_HEAD", "next", "fail"),
       Git(w, "reset -df", "return", "fail") >>

Commit(w) ==
    << Lock(w),
       Git(w, "add .", "next", "fail"),
       Git(w, "commit -a -m", "return", "fail") >>

Merge(w, other) ==
    << Lock(w),
       Lock(other),
       Git(other, "rebase", "next", "fail"),
       Git(w, "merge --ff-only", "return", "fail") >>

\* mutant of Push: after a failed push the locking Pull is called
PushCallsPull(w) ==
    <<Lock(w), Git(w, "push", "return", "next"), Lock(w)>> \o pull(w, "skip")
        \o <<Git(w, "push", "return", "fail")>>

\* push; on an error w.pull() and, if that succeeds, push again
Push(w) ==
    <<Lock(w), Git(w, "push", "return", "next")>> \o pull(w, "skip")
        \o <<Git(w, "push", "return", "fail")>>

\* w.mu only; the branch is deleted by a git command in master's directory
Close(w) ==
    <<Lock(w)>>
        \o (IF w # Master THEN <<Git(Master, "branch -D", "next", "fail")>> ELSE <<>>)
        \o <<Do("RemoveAll", "return", "fail")>>

\* cmd.CombinedOutput() of /bin/bash -c command in w.dir
CombinedOutput == <<Do("bash -c", "return", "fail")>>

\* the methods as the goroutine p calls them: the watcher on repo.master, an
\* execution on repo.master and on its own workdir
MethodBody(m, p) ==
    CASE m = "tempBranchName" -> tempBranchName
      [] m = "Branch" -> Branch(p)
      [] m = "CombinedOutput" -> CombinedOutput
      [] m = "Commit" -> Commit(p)
      [] m = "Merge" -> Merge(Master, p)
      [] m = "Push" -> Push(Master)
      [] m = "FetchHead" -> FetchHead(Master)
      [] m = "Pull" -> Pull(Master)
      [] m = "Close" -> Close(p)

\* executeCommand: what it calls after m has returned ("" is its return)
executeCommandThen(m, err) ==
    CASE m = "tempBranchName" -> "Branch"
      [] m = "Branch" -> IF err THEN "" ELSE "CombinedOutput"
      [] m = "CombinedOutput" -> "Commit"
      [] m = "Commit" -> "Merge"
      [] m = "Merge" -> IF err THEN "Close" ELSE "Push"
      [] m = "Push" -> IF err THEN "FetchHead" ELSE "Close"
      [] m = "FetchHead" -> "Close"
      [] m = "Close" -> ""

\* pullCrontab, and watchCrontab calling it again at the next tick
pullCrontabThen(m, err) == IF m = "Pull" /\ err THEN "FetchHead" ELSE "Pull"

\* a goroutine in no method, and a goroutine at the first step of m
NotCalling == [method |-> "", pc |-> 0, held |-> <<>>, inGit |-> FALSE, branch |-> <<>>, commands |-> 0]

Calling(m) == [NotCalling EXCEPT !.method = m, !.pc = 1]

\* after NewClone: lastTempBranch is zero, the mutexes are free, the watcher
\* is at its first pullCrontab
InitGit ==
    /\ git = [lastTempBranch |-> 0,
              issued |-> <<>>,
              mu |-> [m \in Mutexes |-> ""],
              procs |-> [p \in Goroutines |-> IF p = Watcher THEN Calling("Pull") ELSE NotCalling]]
    /\ nextCall = NoCall
    /\ SupervisorIdle
    /\ ParserIdle
    /\ exec = NoExec
    /\ watch = NoWatch

gitEnv == <<supervisorVars, nextCall, parse, fieldCall, exec, watch>>

\* the step the goroutine p is at
Instr(p) == MethodBody(git.procs[p].method, p)[git.procs[p].pc]

AtStep(p, op) == git.procs[p].pc > 0 /\ Instr(p).op = op

\* the method p is in returns: the deferred Unlocks run, and the caller goes
\* on to its next call or returns itself
Return(p, err) ==
    CHOOSE g \in
        { [git EXCEPT
              !.mu = [m \in Mutexes |-> IF git.mu[m] = p THEN "" ELSE git.mu[m]],
              !.procs[p] = IF then = ""
                           THEN [NotCalling EXCEPT !.commands = git.procs[p].commands + 1]
                           ELSE [@ EXCEPT !.method = then, !.pc = 1, !.held = <<>>, !.inGit = FALSE]] :
              then \in { IF p = Watcher THEN pullCrontabThen(git.procs[p].method, err)
                         ELSE executeCommandThen(git.procs[p].method, err) } } : TRUE

\* p leaves its step by `to`
Goto(p, to) ==
    IF to \in {"return", "fail"} THEN Return(p, to = "fail")
    ELSE [git EXCEPT !.procs[p].pc = @ + (IF to = "skip" THEN 2 ELSE 1),
                     !.procs[p].inGit = FALSE]

\* an executeEntry goroutine calls executeCommand, which calls repo.Branch
executeCommandCall(p) ==
    /\ p \in Executions
    /\ git.procs[p].pc = 0
    /\ git.procs[p].commands < MaxCommands
    /\ git' = [git EXCEPT !.procs[p] = [@ EXCEPT !.method = "tempBranchName", !.pc = 1]]
    /\ UNCHANGED gitEnv

\* mu.Lock() returns when the mutex is free; the Unlock is deferred
MutexLock(p) ==
    /\ AtStep(p, "lock")
    /\ git.mu[Instr(p).at] = ""
    /\ git' = [git EXCEPT !.mu[Instr(p).at] = p,
                          !.procs[p].held = Append(@, Instr(p).at),
                          !.procs[p].pc = @ + 1]
    /\ UNCHANGED gitEnv

\* name := fmt.Sprintf("temp%d", r.lastTempBranch)
tempBranchNameSprintf(p) ==
    /\ AtStep(p, "do")
    /\ Instr(p).cmd = "Sprintf"
    /\ git' = [git EXCEPT !.procs[p].branch = <<"temp", git.lastTempBranch>>,
                          !.issued = Append(@, <<"temp", git.lastTempBranch>>),
                          !.procs[p].pc = @ + 1]
    /\ UNCHANGED gitEnv

\* r.lastTempBranch++; return name
tempBranchNameIncrement(p) ==
    /\ AtStep(p, "do")
    /\ Instr(p).cmd = "lastTempBranch++"
    /\ git' = [Return(p, FALSE) EXCEPT !.lastTempBranch = @ + 1]
    /\ UNCHANGED gitEnv

\* a file operation or the command of the entry: it succeeds or fails
FileStep(p) ==
    /\ AtStep(p, "do")
    /\ Instr(p).cmd \notin {"Sprintf", "lastTempBranch++"}
    /\ \E ok \in BOOLEAN : git' = Goto(p, IF ok THEN Instr(p).ok ELSE Instr(p).fail)
    /\ UNCHANGED gitEnv

\* cmd.CombinedOutput() starts the git command
GitStart(p) ==
    /\ AtStep(p, "git")
    /\ ~git.procs[p].inGit
    /\ git' = [git EXCEPT !.procs[p].inGit = TRUE]
    /\ UNCHANGED gitEnv

\* the git command exits, with or without an error
GitExit(p) ==
    /\ AtStep(p, "git")
    /\ git.procs[p].inGit
    /\ \E ok \in BOOLEAN : git' = Goto(p, IF ok THEN Instr(p).ok ELSE Instr(p).fail)
    /\ UNCHANGED gitEnv

NextGit ==
    \/ \E p \in Executions : executeCommandCall(p)
    \/ \E p \in Goroutines : MutexLock(p)
    \/ \E p \in Executions : tempBranchNameSprintf(p)
    \/ \E p \in Executions : tempBranchNameIncrement(p)
    \/ \E p \in Executions : FileStep(p)
    \/ \E p \in Goroutines : GitStart(p)
    \/ \E p \in Goroutines : GitExit(p)

\* the watcher and the executions on one repo, in any interleaving
SpecGit == InitGit /\ [][NextGit]_vars

\* each goroutine goes on: a git command, a file operation and the command
\* of the entry return, and sync.Mutex hands the mutex to a goroutine that
\* could take it again and again
GitFairness ==
    \A p \in Goroutines :
        /\ WF_vars(GitStart(p) \/ GitExit(p) \/ FileStep(p)
                       \/ tempBranchNameSprintf(p) \/ tempBranchNameIncrement(p))
        /\ SF_vars(MutexLock(p))

SpecGitFair == SpecGit /\ GitFairness

\* the git commands in progress with their directories
RunningGit ==
    { [proc |-> p, dir |-> Instr(p).at, cmd |-> Instr(p).cmd] :
          p \in { q \in Goroutines : git.procs[q].inGit } }

(***************************************************************************)
(* Reference semantics of a schedule, stated on minute numbers and         *)
(* independently of the operators above: the minute-by-minute search the   *)
(* results of Next are compared with.                                      *)
(***************************************************************************)
RefAbs(n) == IF n < 0 THEN 0 - n ELSE n

RefValueIn(l, i) ==
    \E k \in 1..Len(l) :
        /\ l[k].start <= i
        /\ i <= l[k].end
        /\ l[k].step # 0
        /\ (i - l[k].start) % RefAbs(l[k].step) = 0

RefUnrestricted(l, f) == l = <<[start |-> f.min, end |-> f.max, step |-> 1]>>

\* the day rule on absolute day n: AND when either column is unrestricted, OR otherwise
RefDayRule(s, n) ==
    LET dom == Civil(n).d
        dow == (n + 1) % 7
    IN  IF RefUnrestricted(s.day, dayField) \/ RefUnrestricted(s.weekday, weekdayField)
        THEN RefValueIn(s.day, dom) /\ RefValueIn(s.weekday, dow)
        ELSE RefValueIn(s.day, dom) \/ RefValueIn(s.weekday, dow)

RefDateMatches(s, n) == RefValueIn(s.month, Civil(n).mo) /\ RefDayRule(s, n)

RefClockMatches(s, m) ==
    /\ RefValueIn(s.hour, (m % MinutesPerDay) \div 60)
    /\ RefValueIn(s.minute, m % 60)

\* minute m is an instant of schedule s
RefMatches(s, m) == RefDateMatches(s, m \div MinutesPerDay) /\ RefClockMatches(s, m)

\* no minute of a..b is an instant of s (the date test is made once per day)
RefNoMatchIn(s, a, b) ==
    \A n \in (a \div MinutesPerDay)..(b \div MinutesPerDay) :
        RefDateMatches(s, n) =>
            \A m \in (IF a > n * MinutesPerDay THEN a ELSE n * MinutesPerDay)
                     ..(IF b < n * MinutesPerDay + 1439 THEN b ELSE n * MinutesPerDay + 1439) :
                ~RefClockMatches(s, m)

\* r is the smallest minute-aligned instant of s at or after the minute after t's
RefIsEarliest(s, t, r) ==
    /\ r.sec = 0
    /\ r.nsec = 0
    /\ r.min >= t.min + 1
    /\ RefMatches(s, r.min)
    /\ RefNoMatchIn(s, t.min + 1, r.min - 1)

\* every range of every column of s has a step other than 0
StepsNonZero(s) ==
    \A l \in {s.minute, s.hour, s.day, s.month, s.weekday} :
        \A k \in 1..Len(l) : l[k].step # 0

Returned == nextCall.pc = "done"

\* C1: for every schedule the parser produces and every time t, Next(t) returns
\* the smallest minute-aligned instant at or after the minute following t's that
\* matches the schedule, with zero seconds and strictly later than t (the zero
\* time only when the search window up to the horizon holds no instant).
C1_NextIsEarliestMatch ==
    nextCall.pc \in Final =>
        /\ Returned
        /\ nextCall.result # ZeroTime =>
               /\ RefIsEarliest(nextCall.s, nextCall.arg, nextCall.result)
               /\ Before(nextCall.arg, nextCall.result)
        /\ nextCall.result = ZeroTime =>
               RefNoMatchIn(nextCall.s, nextCall.arg.min + 1, nextCall.horizon.min - 1)

\* The statement of C1 on the schedules with no zero step: there Next never
\* panics and agrees with the reference search.
NextIsEarliestMatchOnNonZeroSteps ==
    (nextCall.pc \in Final /\ StepsNonZero(nextCall.s)) =>
        /\ Returned
        /\ nextCall.result # ZeroTime =>
               /\ RefIsEarliest(nextCall.s, nextCall.arg, nextCall.result)
               /\ Before(nextCall.arg, nextCall.result)
        /\ nextCall.result = ZeroTime =>
               RefNoMatchIn(nextCall.s, nextCall.arg.min + 1, nextCall.horizon.min - 1)

\* parseListSpec has returned a list without error
FieldParsed == fieldCall.pc = "done" /\ fieldCall.result.err = NoErr

\* C11: every range of a list that parseListSpec returns without error lies
\* within the bounds of its field, start <= end, and has a step of at least 1
\* (a field string with a range that does not is rejected with an error).
C11_RangesWithinBoundsStepPositive ==
    FieldParsed =>
        \A k \in 1..Len(fieldCall.result.value) :
            LET r == fieldCall.result.value[k]
                f == ColumnField(fieldCall.column)
            IN  /\ f.min <= r.start
                /\ r.start <= r.end
                /\ r.end <= f.max
                /\ r.step >= 1

\* The bounds part of C11 alone: start and end are within the field's bounds.
RangesWithinBounds ==
    FieldParsed =>
        \A k \in 1..Len(fieldCall.result.value) :
            LET r == fieldCall.result.value[k]
                f == ColumnField(fieldCall.column)
            IN  f.min <= r.start /\ r.start <= r.end /\ r.end <= f.max

\* a line with no character other than white space, or whose first such
\* character is #
RefBlankOrComment(line) ==
    \/ \A k \in 1..Len(line) : IsSpace(line[k])
    \/ \E k \in 1..Len(line) :
           /\ line[k] = "#"
           /\ \A j \in 1..(k - 1) : IsSpace(line[j])

RefIsEntryLine(line) == ~RefBlankOrComment(line)

\* the lines of the crontab that are to parse as entries, in order
RefEntryLines == SelectSeq(parse.lines, RefIsEntryLine)

\* the positions in RefEntryLines of the lines ParseEntry fails on
RefFailing ==
    { k \in 1..Len(RefEntryLines) : ParseEntry(TrimLeft(RefEntryLines[k])).err # NoErr }

RefFirstFailing == CHOOSE k \in RefFailing : \A j \in RefFailing : k <= j

\* C12: ParseCrontab is all-or-nothing.  Blank lines and lines whose first
\* character after white space is # are skipped; when every other line parses
\* the result is their entries in line order; when one does not, the result is
\* the error of the first such line and no entry, and the loop has stopped at
\* that line.  A # after the schedule fields belongs to the command.
C12_ParseCrontabAllOrNothing ==
    parse.pc = "done" =>
        /\ IF RefFailing = {}
           THEN /\ parse.err = NoErr
                /\ parse.entries =
                       [k \in 1..Len(RefEntryLines) |-> ParseEntry(TrimLeft(RefEntryLines[k])).value]
           ELSE /\ parse.err = ParseEntry(TrimLeft(RefEntryLines[RefFirstFailing])).err
                /\ parse.entries = <<>>
                /\ parse.k <= Len(parse.lines)
                /\ parse.lines[parse.k] = RefEntryLines[RefFirstFailing]
                /\ Len(SelectSeq(SubSeq(parse.lines, 1, parse.k), RefIsEntryLine)) = RefFirstFailing
        /\ parse.s = <<"0", " ", "1", " ", "2", " ", "3", " ", "4", " ", "#", " ", "x">> =>
               /\ Len(parse.entries) = 1
               /\ parse.entries[1].Command = <<"#", " ", "x">>

\* ParseCrontab has failed on the second of three lines, after a line that
\* parsed and before one that would have
C12_Witness ==
    /\ parse.pc = "done"
    /\ parse.err # NoErr
    /\ Len(parse.lines) = 3
    /\ parse.k = 2
    /\ RefIsEntryLine(parse.lines[1])
    /\ RefIsEntryLine(parse.lines[3])
    /\ ParseEntry(TrimLeft(parse.lines[1])).err = NoErr
    /\ ParseEntry(TrimLeft(parse.lines[3])).err = NoErr
    /\ parse.entries = <<>>

\* the executeCommand calls started for entry e and instant x, by any task
RunsFor(e, x) == { r \in runs : r.entry = e /\ r.instant = x }

\* the final executions task i has started from its stop branch
StopRuns(i) == { r \in runs : r.task = i /\ r.via = "stop" }

\* the tasks spawned for snapshot g
TasksOf(g) == { i \in 1..Len(tasks) : tasks[i].gen = g }

\* C2: a fire that was already due when a new snapshot was accepted (a task of
\* the superseded generation was waiting on an instant at or before the
\* acceptance time) is never executed more than once in total, whatever the
\* interleaving.  Stated for instants other than the zero time.
C2_DueFireExecutedOnce ==
    \A d \in sup.due :
        d.instant # ZeroTime => Cardinality(RunsFor(d.entry, d.instant)) <= 1

\* C3: accepting the first snapshot sends no stop signal; accepting any later
\* snapshot sends its acceptance time on the stop channel made for the snapshot
\* before it.
C3_StopSentToPreviousGeneration ==
    \A g \in 1..Len(sup.log) :
        IF g = 1
        THEN sup.log[g].stopped = 0
        ELSE sup.log[g].stopped = sup.log[g - 1].made

\* C4: the cutoff stays observable by the tasks of a superseded generation
\* until they have returned: while a task of such a generation has not read
\* it, the cutoff is in the generation's stop channel or in the hands of a task
\* that is about to send it again.
C4_CutoffStaysObservable ==
    \A g \in 1..(Len(sup.log) - 1) :
        (\E i \in TasksOf(g) : tasks[i].pc \in {"select", "timerRun"}) =>
            \/ Len(chans[sup.log[g].made]) > 0
            \/ \E i \in TasksOf(g) : tasks[i].pc = "resend"

\* the pcs of a task that has taken its stop branch
Stopping == {"resend", "finalRun", "returned"}

\* a task in its stop branch has made the final executions that its cutoff and
\* its pending target call for
FinalRunRule(i) ==
    LET due == ~Before(tasks[i].t, tasks[i].next)
    IN  /\ tasks[i].pc = "resend" => StopRuns(i) = {}
        /\ tasks[i].pc = "finalRun" => due /\ Cardinality(StopRuns(i)) = 1
        /\ tasks[i].pc = "returned" => Cardinality(StopRuns(i)) = (IF due THEN 1 ELSE 0)

\* a task in its stop branch moves towards its return only, with the same
\* cutoff and target, and starts nothing from its timer
NoLoopAfterStop(i) ==
    /\ tasks'[i].pc \in Stopping
    /\ tasks[i].pc = "finalRun" => tasks'[i].pc \in {"finalRun", "returned"}
    /\ tasks[i].pc = "returned" => tasks'[i].pc = "returned"
    /\ tasks'[i].next = tasks[i].next
    /\ tasks'[i].t = tasks[i].t
    /\ { r \in runs' : r.task = i /\ r.via = "timer" } = { r \in runs : r.task = i /\ r.via = "timer" }

\* C5: a task that takes its stop branch with cutoff t while waiting on next
\* calls executeCommand exactly once and returns when t >= next, returns
\* without calling it when t < next, and in both cases never goes round its
\* loop again.
C5_FinalRunOnStop ==
    /\ [](\A i \in 1..Len(tasks) : tasks[i].pc \in Stopping => FinalRunRule(i))
    /\ [][\A i \in 1..Len(tasks) : tasks[i].pc \in Stopping => NoLoopAfterStop(i)]_vars

\* two tasks of one generation have returned on the same cutoff: one waiting on
\* the instant the cutoff equals, after its final execution, the other waiting
\* on a later instant, without one
C5_Witness ==
    \E i, j \in 1..Len(tasks) :
        /\ tasks[i].pc = "returned" /\ tasks[j].pc = "returned"
        /\ tasks[i].t = tasks[i].next
        /\ tasks[i].next # ZeroTime
        /\ Cardinality(StopRuns(i)) = 1
        /\ Before(tasks[j].t, tasks[j].next)
        /\ StopRuns(j) = {}

\* C6: the day constraint is AND when the day-of-month list or the weekday list
\* is a wildcard and OR when neither is: wherever Next tests a candidate date,
\* dayMatches agrees with that rule; hence the results of "0 0 13 * 5" are the
\* next date that is a 13th or a Friday, whichever comes first (from 2000-01-13
\* 00:00 it is 2000-01-14 00:00, from 2000-02-11 00:00 it is 2000-02-13 00:00).
C6_DayRuleAndOr ==
    /\ (nextCall.pc = "day" /\ ~dayPanics(nextCall.s, nextCall.t)) =>
           (dayMatches(nextCall.s, nextCall.t) <=> RefDayRule(nextCall.s, AbsDay(nextCall.t)))
    /\ (Returned /\ nextCall.s = Day13OrFriday) =>
           /\ nextCall.result.min % MinutesPerDay = 0
           /\ AbsDay(nextCall.result) > AbsDay(nextCall.arg)
           /\ Day(nextCall.result) = 13 \/ Weekday(nextCall.result) = 5
           /\ \A n \in (AbsDay(nextCall.arg) + 1)..(AbsDay(nextCall.result) - 1) :
                  Civil(n).d # 13 /\ (n + 1) % 7 # 5
           /\ nextCall.arg = Date(2000, 1, 13, 0, 0, 0, 0) =>
                  nextCall.result = Date(2000, 1, 14, 0, 0, 0, 0)
           /\ nextCall.arg = Date(2000, 2, 11, 0, 0, 0, 0) =>
                  nextCall.result = Date(2000, 2, 13, 0, 0, 0, 0)

\* "0 0 13 * 5" has fired on a 13th that is not a Friday, after a Friday that is not a 13th
C6_Witness ==
    /\ Returned
    /\ nextCall.s = Day13OrFriday
    /\ nextCall.arg = Date(2000, 2, 11, 0, 0, 0, 0)
    /\ Weekday(nextCall.arg) = 5
    /\ Day(nextCall.result) = 13
    /\ Weekday(nextCall.result) # 5

\* C7: Next terminates on every schedule and time: it is always at its return
\* (or at a panic) or at a loop test that can be taken, and it gets to its
\* return within 128 steps (1 + 12 + 31 + 24
\* + 60 loop tests) for each of at most 100 passes through the labelled loop
\* (96 months to the horizon, and 4); on "0 0 31 2 *", which no date satisfies,
\* it returns the zero time.
C7_NextTerminates ==
    /\ nextCall.iters <= 128 * 100
    /\ nextCall.pc \in Final \union {"start", "wrap", "month", "day", "hour", "minute"}
    /\ (nextCall.s = Feb31 /\ nextCall.pc \in Final) =>
           (Returned /\ nextCall.result = ZeroTime)

\* the search on "0 0 31 2 *" has run past the horizon and returned
C7_Witness ==
    /\ Returned
    /\ nextCall.s = Feb31
    /\ nextCall.result = ZeroTime
    /\ ~Before(nextCall.t, nextCall.horizon)

\* the times between t and r the package's tests probe: t itself, one minute
\* after t, one minute and one nanosecond before r
Probes(t, r) ==
    { p \in { t, AddMinutes(t, 1), AddMinutes(r, 0 - 1),
              [min |-> r.min - 1, sec |-> 59, nsec |-> 999999999] } :
        ~Before(p, t) /\ Before(p, r) }

\* C8: Next is constant between firings: when Next(t) returns an instant r,
\* Next(t2) returns r for every probed t2 with t <= t2 < r, and no instant of
\* the schedule lies strictly between t2 and r.
C8_ConstantBetweenFirings ==
    (Returned /\ nextCall.result # ZeroTime) =>
        \A t2 \in Probes(nextCall.arg, nextCall.result) :
            /\ ~NextPanics(nextCall.s, t2)
            /\ ScheduleNext(nextCall.s, t2) = nextCall.result
            /\ RefNoMatchIn(nextCall.s, t2.min + 1, nextCall.result.min - 1)

\* Next has returned an instant more than a minute after its argument, so that
\* the probe one nanosecond before the instant lies strictly after the argument
C8_Witness ==
    /\ Returned
    /\ nextCall.result # ZeroTime
    /\ nextCall.result.min > nextCall.arg.min + 1
    /\ Cardinality(Probes(nextCall.arg, nextCall.result)) = 4

\* C9: after a timer-triggered execution for an instant has completed at now',
\* the task has reported an overrun exactly when now' >= Next(instant), it is
\* back at its select, and it waits on Next(now'), which is strictly later
\* than now'.
C9_OverrunRule ==
    \A i \in 1..Len(tasks) :
        (tasks[i].fired > 0 /\ tasks[i].pc = "select") =>
            /\ tasks[i].overran = ~Before(tasks[i].now, EntryNext(tasks[i].entry, tasks[i].start))
            /\ tasks[i].next = EntryNext(tasks[i].entry, tasks[i].now)
            /\ Before(tasks[i].now, tasks[i].next)

\* The statement of C9 on the entries whose schedule has a next instant.
OverrunRuleOnSatisfiable ==
    \A i \in 1..Len(tasks) :
        (tasks[i].fired > 0 /\ tasks[i].pc = "select" /\ tasks[i].entry # EntryNever) =>
            /\ tasks[i].overran = ~Before(tasks[i].now, EntryNext(tasks[i].entry, tasks[i].start))
            /\ tasks[i].next = EntryNext(tasks[i].entry, tasks[i].now)
            /\ Before(tasks[i].now, tasks[i].next)

\* an execution has overrun the following instant of its schedule
OverrunReported ==
    \E i \in 1..Len(tasks) : tasks[i].overran /\ tasks[i].entry # EntryNever

\* C10: executeCommand is never called for the zero time that Next returns
\* when a schedule has no next instant, neither from the timer branch nor as a
\* final execution.
C10_SentinelNeverRuns ==
    \A r \in runs : r.instant # ZeroTime

\* C13: an execution that has started is not cut short.  While a task is
\* running its command, no step of any other party moves it anywhere but to the
\* completion of that run (back to its select, the run counted), its run stays
\* on record, and a task reads the stop channel from its select only.
C13_NoPreemption ==
    [][/\ runs \subseteq runs'
       /\ \A i \in 1..Len(tasks) :
              /\ tasks[i].pc = "timerRun" =>
                     /\ tasks'[i].pc \in {"timerRun", "select"}
                     /\ tasks'[i].t = tasks[i].t
                     /\ tasks'[i].pc = "select" => tasks'[i].fired = tasks[i].fired + 1
              /\ (tasks[i].pc # "resend" /\ tasks'[i].pc = "resend") => tasks[i].pc = "select"]_vars

\* a task is running its command while a cutoff sits in its stop channel
C13_Witness ==
    \E i \in 1..Len(tasks) :
        /\ tasks[i].pc = "timerRun"
        /\ Len(chans[tasks[i].stopTime]) > 0

\* the positions in exec.calls of the calls of op
CallsOf(op) == { k \in 1..Len(exec.calls) : exec.calls[k].op = op }

\* a call of op has failed
Failed(op) == \E k \in CallsOf(op) : ~exec.calls[k].ok

\* C14: a collaborator failure is contained.  When Branch fails, the command
\* is not run and there is no commit, merge or push; when Commit or Merge
\* fails, Push is not called; and executeCommand is always at one of its
\* statements or has returned.
C14_FailureContained ==
    /\ Failed("Branch") =>
           CallsOf("bash") \union CallsOf("Commit") \union CallsOf("Merge") \union CallsOf("push") = {}
    /\ (Failed("Commit") \/ Failed("Merge")) => CallsOf("push") = {}
    /\ exec.pc \in {"idle", "branch", "run", "commit", "merge", "push", "pull", "pushAgain",
                    "fetch", "close", "returned"}

\* The statement of C14 without the Commit case.
FailureContainedButCommit ==
    /\ Failed("Branch") =>
           CallsOf("bash") \union CallsOf("Commit") \union CallsOf("Merge") \union CallsOf("push") = {}
    /\ Failed("Merge") => CallsOf("push") = {}

\* Push has returned
PushReturned == CallsOf("push") # {} /\ exec.pc \in {"fetch", "close", "returned"}

\* C15: Push retries exactly once.  It pushes at most twice and pulls at most
\* once; the pull follows a failed first push; the second push is made only
\* after that pull succeeded and Push returns its result; when the pull fails
\* Push returns its error without a second push.
C15_PushRetriesOnce ==
    LET pushes == CallsOf("push")
        pulls == CallsOf("pull")
        first == CHOOSE k \in pushes : \A j \in pushes : k <= j
        last == CHOOSE k \in pushes : \A j \in pushes : k >= j
    IN  /\ Cardinality(pushes) <= 2
        /\ Cardinality(pulls) <= 1
        /\ \A p \in pulls : pushes # {} /\ first < p /\ ~exec.calls[first].ok
        /\ Cardinality(pushes) = 2 =>
               /\ ~exec.calls[first].ok
               /\ \E p \in pulls : first < p /\ p < last /\ exec.calls[p].ok
        /\ PushReturned =>
               /\ exec.calls[first].ok => (pulls = {} /\ ~exec.pushErr)
               /\ ~exec.calls[first].ok => Cardinality(pulls) = 1
               /\ Failed("pull") => (Cardinality(pushes) = 1 /\ exec.pushErr)
               /\ (pulls # {} /\ ~Failed("pull")) =>
                      (Cardinality(pushes) = 2 /\ exec.pushErr = ~exec.calls[last].ok)

\* Push has pushed, pulled with success and pushed again, and returned the
\* second push's error
C15_Witness ==
    /\ PushReturned
    /\ Cardinality(CallsOf("push")) = 2
    /\ ~Failed("pull")
    /\ exec.pushErr

\* i is start plus a multiple of the step, within start..end
RefMemberMatches(r, i) ==
    /\ r.start <= i
    /\ i <= r.end
    /\ r.step # 0
    /\ \E n \in 0..59 : i - r.start = n * RefAbs(r.step)

\* the values a field is asked about: its bounds and one beyond on each side
Asked(f) == (f.min - 1)..(f.max + 1)

\* C16: a list matches i iff at least one of its ranges matches i, and it is a
\* wildcard iff it has exactly one member and that member has step 1, start =
\* field.min and end = field.max.
C16_ListSpecRule ==
    FieldParsed =>
        LET l == fieldCall.result.value
            f == ColumnField(fieldCall.column)
        IN  /\ \A i \in Asked(f) :
                   /\ ~listPanics(l, i)
                   /\ listMatches(l, i) <=> \E k \in 1..Len(l) : RefMemberMatches(l[k], i)
            /\ listWildcard(l, f) <=>
                   (Len(l) = 1 /\ l[1].step = 1 /\ l[1].start = f.min /\ l[1].end = f.max)

\* The statement of C16 on the lists with no zero step.
ListSpecRuleOnNonZeroSteps ==
    (FieldParsed /\ \A k \in 1..Len(fieldCall.result.value) : fieldCall.result.value[k].step # 0) =>
        LET l == fieldCall.result.value
            f == ColumnField(fieldCall.column)
        IN  /\ \A i \in Asked(f) :
                   /\ ~listPanics(l, i)
                   /\ listMatches(l, i) <=> \E k \in 1..Len(l) : RefMemberMatches(l[k], i)
            /\ listWildcard(l, f) <=>
                   (Len(l) = 1 /\ l[1].step = 1 /\ l[1].start = f.min /\ l[1].end = f.max)

\* the month names in calendar order and the weekday names from Sunday
RefMonthOrder == << <<"j", "a", "n">>, <<"f", "e", "b">>, <<"m", "a", "r">>, <<"a", "p", "r">>, <<"m", "a", "y">>, <<"j", "u", "n">>, <<"j", "u", "l">>, <<"a", "u", "g">>, <<"s", "e", "p">>, <<"o", "c", "t">>, <<"n", "o", "v">>, <<"d", "e", "c">> >>

RefWeekdayOrder == << <<"s", "u", "n">>, <<"m", "o", "n">>, <<"t", "u", "e">>, <<"w", "e", "d">>, <<"t", "h", "u">>, <<"f", "r", "i">>, <<"s", "a", "t">> >>

\* the position of x in the sequence order, 0 when it is not in it
RefPosition(order, x) ==
    IF \E k \in 1..Len(order) : order[k] = x
    THEN CHOOSE k \in 1..Len(order) : order[k] = x
    ELSE 0

\* what a VALUE stands for in a column: in the month and weekday columns its
\* entry in the column's table (month names 1..12, weekday names 0..6, and 7
\* for 0) if it has one, and otherwise the integer it spells
RefValue(v, column) ==
    IF column = 4 /\ RefPosition(RefMonthOrder, v) # 0
    THEN [ok |-> TRUE, val |-> RefPosition(RefMonthOrder, v)]
    ELSE IF column = 5 /\ RefPosition(RefWeekdayOrder, v) # 0
    THEN [ok |-> TRUE, val |-> RefPosition(RefWeekdayOrder, v) - 1]
    ELSE IF column = 5 /\ v = <<"7">>
    THEN [ok |-> TRUE, val |-> 0]
    ELSE Atoi(v)

\* what the range a-b must parse to in a column
RefRangeResult(a, b, column) ==
    LET va == RefValue(a, column)
        vb == RefValue(b, column)
        f == ColumnField(column)
    IN  IF va.ok /\ vb.ok /\ f.min <= va.val /\ va.val <= vb.val /\ vb.val <= f.max
        THEN <<R(va.val, vb.val, 1)>>
        ELSE <<>>

\* the result of the call is the list l, or an error when l is empty
FieldResultIs(l) ==
    IF l = <<>> THEN fieldCall.result.err # NoErr
    ELSE fieldCall.result = Result(l, NoErr)

\* C17: in the month and weekday columns a VALUE is looked up in the column's
\* substitution table first and parsed as an integer only otherwise, at the
\* start and at the end of a range; the weekday 7 becomes 0 before the bounds
\* are tested, so "7-wed/2,thu" parses to [{0,3,2},{4,4,1}] and "jan-5" to the
\* month range {1,5,1}.
C17_SubstitutionBeforeInteger ==
    (fieldCall.pc = "done" /\ fieldCall.column \in {4, 5}) =>
        /\ \A a \in FieldValues :
               fieldCall.s = a => FieldResultIs(RefRangeResult(a, a, fieldCall.column))
        /\ \A a, b \in FieldValues :
               fieldCall.s = a \o <<"-">> \o b =>
                   FieldResultIs(RefRangeResult(a, b, fieldCall.column))
        /\ (fieldCall.column = 5 /\ fieldCall.s = <<"7", "-", "w", "e", "d", "/", "2", ",", "t", "h", "u">>) =>
               fieldCall.result = Result(<<R(0, 3, 2), R(4, 4, 1)>>, NoErr)
        /\ (fieldCall.column = 4 /\ fieldCall.s = <<"j", "a", "n", "-", "5">>) =>
               fieldCall.result = Result(<<R(1, 5, 1)>>, NoErr)

\* "7-wed/2,thu" has been parsed as a weekday list
C17_Witness ==
    /\ FieldParsed
    /\ fieldCall.column = 5
    /\ fieldCall.s = <<"7", "-", "w", "e", "d", "/", "2", ",", "t", "h", "u">>
    /\ fieldCall.result.value[1].start = 0

\* C18: in the month column every spelling of a month name in upper and lower
\* case parses, to the number of the month.
C18_MonthNamesAnyCase ==
    (fieldCall.pc = "done" /\ fieldCall.column = 4) =>
        \A n \in 1..12 :
            fieldCall.s \in Spellings(RefMonthOrder[n]) =>
                fieldCall.result = Result(<<R(n, n, 1)>>, NoErr)

\* The statement of C18 on the lower-case spellings.
MonthNamesLowerCase ==
    (fieldCall.pc = "done" /\ fieldCall.column = 4) =>
        \A n \in 1..12 :
            fieldCall.s = RefMonthOrder[n] =>
                fieldCall.result = Result(<<R(n, n, 1)>>, NoErr)

\* C19: for an entry in two consecutive snapshots, no instant is executed both
\* by the task of the older generation and by the task of the newer one.
\* Stated for instants other than the zero time.
C19_NoDoubleFiring ==
    \A r1, r2 \in runs :
        ~ /\ r1.entry = r2.entry
          /\ r1.instant = r2.instant
          /\ r1.instant # ZeroTime
          /\ tasks[r2.task].gen = tasks[r1.task].gen + 1

\* the executions task i has started after a cutoff was sent on its stop channel
RunsAfterStop(i) == { r \in runs : r.task = i /\ r.afterStop }

OneFurtherExecutionOnSatisfiable ==
    \A i \in 1..Len(tasks) :
        tasks[i].entry # EntryNever => Cardinality(RunsAfterStop(i)) <= 1

\* no stop channel holds more than the one value its buffer has room for
ChannelsHoldAtMostOne == \A c \in 1..Len(chans) : Len(chans[c]) <= 1

\* a task that has received the cutoff and is about to send it again finds
\* the buffer of its stop channel empty
ResendNeverBlocks ==
    \A i \in 1..Len(tasks) : tasks[i].pc = "resend" => Len(chans[tasks[i].stopTime]) = 0

\* the step that accepts a snapshot after the first leaves the acceptance
\* time in the stop channel made for the snapshot before it
SnapshotSendCompletes ==
    (sup'.accepted = sup.accepted + 1 /\ sup.accepted >= 1) =>
        chans'[sup.log[sup.accepted].made] = <<clock>>

StopBuffersNeverFull == ChannelsHoldAtMostOne /\ ResendNeverBlocks

\* a task holds the cutoff it has received, between its receive and its send
ResendReached == \E i \in 1..Len(tasks) : tasks[i].pc = "resend"

\* C22: Next gives up at the horizon: every instant it returns, the zero time
\* apart, is strictly earlier than its argument plus 8 calendar years.  On
\* "0 0 29 2 *" from 2096-02-29 00:00:00, where the only candidate is the
\* horizon 2104-02-29 00:00:00 itself, it returns the zero time.
C22_ResultBeforeHorizon ==
    /\ (Returned /\ nextCall.result # ZeroTime) =>
           Before(nextCall.result, AddDate(nextCall.arg, 8, 0, 0))
    /\ (Returned /\ nextCall.s = LeapDay /\ nextCall.arg = Date(2096, 2, 29, 0, 0, 0, 0)) =>
           nextCall.result = ZeroTime

\* The statement of C22 with the horizon included: no instant returned is
\* later than the argument plus 8 calendar years.
ResultNotAfterHorizon ==
    (Returned /\ nextCall.result # ZeroTime) =>
        ~Before(AddDate(nextCall.arg, 8, 0, 0), nextCall.result)

\* The statement of C22 at the head of the labelled loop, the one place where
\* the candidate is compared with the horizon.
HorizonTestedAtWrap ==
    (Returned /\ nextCall.result = ZeroTime) => ~Before(nextCall.t, nextCall.horizon)

\* task i is back at its select after an execution from its timer that did
\* not overrun: the command returned at now' with now' before Next(start)
BackWithoutOverrun(i) ==
    /\ tasks[i].fired > 0
    /\ tasks[i].pc = "select"
    /\ Before(tasks[i].now, EntryNext(tasks[i].entry, tasks[i].start))

\* C23: no scheduled instant is skipped without an overrun.  After an
\* execution from the timer for the instant next that completes at now'
\* before Next(next), the target the task waits on after it, which the loop
\* computes from now', is Next(next).
C23_NoInstantSkipped ==
    \A i \in 1..Len(tasks) :
        BackWithoutOverrun(i) =>
            tasks[i].next = EntryNext(tasks[i].entry, tasks[i].start)

\* a task is back at its select after an execution that returned strictly
\* after the instant it was for and before the one that follows
C23_Witness ==
    \E i \in 1..Len(tasks) :
        /\ BackWithoutOverrun(i)
        /\ Before(tasks[i].start, tasks[i].now)
        /\ tasks[i].next # ZeroTime

\* the executions task i has started, from its timer or from its stop branch
RunsOf(i) == { r \in runs : r.task = i }

\* the time task i was spawned with: the acceptance time of its snapshot
SeedOf(i) == sup.log[tasks[i].gen].now

\* C24: a task never executes its command twice for the same instant.  For an
\* entry whose schedule always has a next instant, the instants of the task's
\* executions, in the order it starts them (those from its timer, then at
\* most one from its stop branch), are strictly increasing, and each is
\* strictly later than the minute of the time the task was spawned with.
C24_InstantsStrictlyIncrease ==
    \A i \in 1..Len(tasks) :
        tasks[i].entry # EntryNever =>
            /\ \A r1, r2 \in RunsOf(i) :
                   /\ r1.nth = r2.nth => r1 = r2
                   /\ r1.nth < r2.nth =>
                          (Before(r1.instant, r2.instant) /\ r1.via = "timer")
            /\ \A r \in RunsOf(i) :
                   r.instant.min > SeedOf(i).min /\ r.instant.sec = 0 /\ r.instant.nsec = 0

\* a task has executed from its timer and then, for a later instant, from its
\* stop branch
C24_Witness ==
    \E i \in 1..Len(tasks) :
        /\ tasks[i].entry # EntryNever
        /\ \E r1, r2 \in RunsOf(i) :
               r1.via = "timer" /\ r2.via = "stop" /\ r1.nth < r2.nth

\* every line of the file that is neither blank nor a comment parses
RefFileParses(contents) ==
    \A line \in { Split(contents, "\n")[k] : k \in 1..Len(Split(contents, "\n")) } :
        RefIsEntryLine(line) => ParseEntry(TrimLeft(line)).err = NoErr

\* the calls of pullCrontab that have ended by sending the entries
SentOutcomes == { k \in 1..Len(watch.outcomes) : watch.outcomes[k].result = "sent" }

\* the running generations: what executeCrontab and the tasks hold
Generations == <<sup, chans, tasks, runs>>

\* a call of pullCrontab ends with an error in this step
PullFails ==
    /\ Len(watch'.outcomes) = Len(watch.outcomes) + 1
    /\ watch'.outcomes[Len(watch'.outcomes)].result = "error"

\* C25: a failed fetch leaves the running generation unchanged.  When
\* pullCrontab fails, at FetchHead after a failed Pull, at the read of the file
\* or at ParseCrontab, nothing is sent on crontabUpdates: executeCrontab
\* accepts nothing, sends no stop signal and spawns no task, and the watcher
\* goes on to wait for its ticker.  A snapshot is accepted only from a send,
\* and a send is made only of a file that parsed as a whole.
C25_FailedPullChangesNothing ==
    /\ [](/\ sup.accepted = Cardinality(SentOutcomes)
          /\ watch.pc \in {"pull", "fetchHead", "read", "send", "wait"}
          /\ watch.pc = "send" => RefFileParses(watch.contents)
          /\ \A k \in 1..Len(watch.outcomes) :
                 /\ watch.outcomes[k].result = "sent" => RefFileParses(watch.outcomes[k].contents)
                 /\ watch.outcomes[k].at = "ParseCrontab" =>
                        ~RefFileParses(watch.outcomes[k].contents))
    /\ [][/\ PullFails =>
                 /\ Generations' = Generations
                 /\ watch.pc \in {"fetchHead", "read"}
                 /\ watch'.pc = "wait"
          /\ Generations' # Generations =>
                 \/ <<sup, chans, Len(tasks)>>' = <<sup, chans, Len(tasks)>>
                 \/ /\ watch.pc = "send"
                    /\ watch'.outcomes = Append(watch.outcomes, Outcome("sent", "", watch.contents))
                    /\ sup'.accepted = sup.accepted + 1
                    /\ Len(tasks') = Len(tasks) + Len(watch.entries)]_vars

\* pullCrontab has failed in each of its three ways while a generation was
\* running, and that generation's task has since executed its command
C25_Witness ==
    /\ sup.accepted = 1
    /\ Len(watch.outcomes) = MaxPolls
    /\ watch.outcomes[1].result = "sent"
    /\ { watch.outcomes[k].at : k \in 2..Len(watch.outcomes) } \subseteq {"FetchHead", "ReadFile", "ParseCrontab"}
    /\ Cardinality({ watch.outcomes[k].at : k \in 2..Len(watch.outcomes) }) >= 2
    /\ runs # {}

\* the git commands in progress in master's directory
MasterGit == { r \in RunningGit : r.dir = Master }

\* C26: after NewClone at most one git command runs in master's directory at
\* any time, and every git command run there (pull, fetch and reset, branch,
\* merge, push, and the branch -D of the Close of a branch workdir) is run by
\* the goroutine that holds master's mutex.
C26_MasterGitUnderMutex ==
    /\ Cardinality(MasterGit) <= 1
    /\ \A r \in MasterGit : git.mu[Master] = r.proc

\* every git command in master's directory other than the branch -D of Close
\* is run by the holder of master's mutex, and of those at most one runs
MasterGitButCloseUnderMutex ==
    /\ Cardinality({ r \in MasterGit : r.cmd # "branch -D" }) <= 1
    /\ \A r \in MasterGit : r.cmd # "branch -D" => git.mu[Master] = r.proc

\* the branch -D of a Close runs in master's directory while another git
\* command runs there
CloseOverlapsMasterGit ==
    \E r \in MasterGit : r.cmd = "branch -D" /\ Cardinality(MasterGit) >= 2

\* the executions whose workdir has its name and is not yet closed
AliveWorkdirs == { p \in Executions : git.procs[p].branch # <<>> }

\* p is in tempBranchName between the read of lastTempBranch and its increment
BetweenReadAndIncrement(p) ==
    /\ git.procs[p].method = "tempBranchName"
    /\ git.procs[p].branch # <<>>

\* C27: concurrent calls of Branch on one repo obtain pairwise distinct
\* temporary branch names.  lastTempBranch is read and incremented under
\* repo.mu with no other goroutine in between; no name is handed out twice,
\* and no two workdirs alive at the same time share a branch name.
C27_BranchNamesDistinct ==
    /\ \A p \in Executions :
           BetweenReadAndIncrement(p) =>
               /\ git.mu[RepoMu] = p
               /\ git.procs[p].branch = <<"temp", git.lastTempBranch>>
    /\ \A j, k \in 1..Len(git.issued) : j # k => git.issued[j] # git.issued[k]
    /\ \A p, q \in AliveWorkdirs : p # q => git.procs[p].branch # git.procs[q].branch

\* two calls of Branch at once: one execution is between the read and the
\* increment, the other waits for repo.mu in tempBranchName, and a workdir
\* named earlier is still alive
C27_Witness ==
    \E p, q \in Executions :
        /\ BetweenReadAndIncrement(p)
        /\ git.procs[q].method = "tempBranchName"
        /\ git.procs[q].pc = 1
        /\ git.procs[q].branch = <<>>
        /\ Len(git.issued) >= 2

\* p is in mu.Lock() of a mutex that a goroutine holds
Waiting(p) == AtStep(p, "lock") /\ git.mu[Instr(p).at] # ""

\* p is not waiting, or waits for a goroutine that is not itself and that in
\* turn, over at most n more holders, waits for none
RECURSIVE NotInCycle(_, _)
NotInCycle(p, n) ==
    IF ~Waiting(p) THEN TRUE
    ELSE IF n = 0 \/ git.mu[Instr(p).at] = p THEN FALSE
    ELSE NotInCycle(git.mu[Instr(p).at], n - 1)

\* each mutex is held by the goroutine that locked it in the method it is in
HeldIsLocked ==
    \A m \in Mutexes, p \in Goroutines :
        git.mu[m] = p <=> \E k \in 1..Len(git.procs[p].held) : git.procs[p].held[k] = m

\* only Merge holds two mutexes, master's taken first; a goroutine that calls
\* Lock while it holds a mutex is in Merge, holds master's and asks for its own
LockOrder ==
    \A p \in Goroutines :
        /\ Len(git.procs[p].held) <= 2
        /\ Len(git.procs[p].held) = 2 =>
               git.procs[p].method = "Merge" /\ git.procs[p].held = <<Master, p>>
        /\ AtStep(p, "lock") /\ git.procs[p].held # <<>> =>
               /\ git.procs[p].method = "Merge"
               /\ git.procs[p].held = <<Master>>
               /\ Instr(p).at = p
        /\ AtStep(p, "lock") /\ Instr(p).at = Master => git.procs[p].held = <<>>

\* no goroutines wait for each other in a circle
NoDeadlock == \A p \in Goroutines : NotInCycle(p, Cardinality(Goroutines))

\* C28: the workdir mutexes can not deadlock.  Merge is the only method that
\* holds two mutexes and takes master's before the branch workdir's, no
\* method asks for master's mutex while it holds a branch workdir's, no
\* goroutines wait for each other in a circle, and, each git command
\* returning and a Lock that can return again and again returning, no
\* goroutine stays in Lock for ever: every Lock returns.
C28_NoDeadlock ==
    /\ [](HeldIsLocked /\ LockOrder /\ NoDeadlock)
    /\ \A p \in Goroutines : []<>~AtStep(p, "lock")

\* one execution is in Merge with master's mutex and its own while the
\* watcher and the other execution wait for master's mutex
C28_Witness ==
    \E p, q \in Executions :
        /\ git.procs[p].held = <<Master, p>>
        /\ git.procs[p].inGit
        /\ Waiting(q)
        /\ Waiting(Watcher)

====
